---- MODULE Spec2Model ----
(***************************************************************************)
(* RimSort metadata core: the in-memory mod store, the relation compiler   *)
(* (compile_metadata), the active-list builder (get_mods_from_list) and    *)
(* the recursive database merge (recursively_update_dict), modelled from   *)
(* src/app/utils/metadata.py.                                              *)
(*                                                                         *)
(* Strings are sequences of characters.  A character is a one-letter       *)
(* string, except that the marker "_steam" (and its mixed-case spelling    *)
(* "_STEAM") and the build number "3600" are kept as one unit.             *)
(***************************************************************************)
EXTENDS Integers, Sequences, FiniteSets, TLC

\* Bounds of the model.
MaxMods == 2        \* installed records in the store
MaxRequest == 2     \* entries of a requested mod list
MaxCalls == 2       \* calls of get_mods_from_list on one store and request
MaxNodes == 2       \* keys, at all depths together, of a database tree
MaxMerges == 2      \* merges of one fresh database into the database file
MaxRules == 1       \* rule declarations spread over the descriptors

VARIABLES
    internal_local_metadata,   \* uuid -> mod record (MetadataManager.internal_local_metadata)
    packageid_to_uuids,        \* packageid -> set of uuids (MetadataManager.packageid_to_uuids)
    game_version,              \* MetadataManager.game_version
    dependency_for_sorting,    \* settings.dependency_for_sorting
    external_steam_metadata,   \* publishedfileid -> remote entry; empty when not configured
    external_community_rules,  \* packageId -> rule buckets; empty when not configured
    external_user_rules,       \* packageId -> rule buckets; empty when not configured
    last_op,                   \* the last operation run on the store and how it ended
    mod_list,                  \* the request handed to get_mods_from_list
    list_results,              \* what each call of get_mods_from_list returned, in call order
    db_to_update,              \* the persisted database (the file at output_database_path)
    database,                  \* the freshly built database handed to _output_database
    merge_results,             \* the persisted database after each merge, in order
    mod_metadata_dir_mapper,   \* mod directory -> uuid (MetadataManager.mod_metadata_dir_mapper)
    mod_metadata_file_mapper,  \* About.xml path -> uuid (MetadataManager.mod_metadata_file_mapper)
    parser_threadpool,         \* the ModParser tasks started and not yet finished
    parser_metadata,           \* ModParser.metadata of the parsers that ran, uuid -> entry
    pc,                        \* where the thread that owns the store stands
    mod_folders,               \* data source -> its directories on disk, or Unset
    uuid4_count,               \* how many uuids uuid4() has handed out
    refreshes,                 \* per refresh_cache call: is_initial, its batches, its purges
    creations,                 \* how many creation events were handled
    builder,                   \* the SteamDatabaseBuilder thread: its settings and where run() stands
    workshop,                  \* the remote Workshop catalogue the WebAPI answers from
    appid_query,               \* the fields of an AppIDQuery object
    dynamic_query              \* the locals of DynamicQuery.cache_parsable_db_data

storeVars == <<internal_local_metadata, packageid_to_uuids>>
configVars == <<game_version, dependency_for_sorting, external_steam_metadata,
                external_community_rules, external_user_rules>>
listVars == <<mod_list, list_results>>
buildVars == <<builder, workshop, appid_query, dynamic_query>>
mergeVars == <<db_to_update, database, merge_results, buildVars>>
mapperVars == <<mod_metadata_dir_mapper, mod_metadata_file_mapper>>
refreshVars == <<mapperVars, parser_threadpool, parser_metadata, pc, mod_folders,
                 uuid4_count, refreshes, creations>>

vars == <<storeVars, configVars, last_op, listVars, mergeVars, refreshVars>>

----------------------------------------------------------------------------
\* Strings

\* str.lower() on one character
LowerChar(c) ==
    CASE c = "A" -> "a"
      [] c = "B" -> "b"
      [] c = "C" -> "c"
      [] c = "X" -> "x"
      [] c = "Y" -> "y"
      [] c = "_STEAM" -> "_steam"
      [] OTHER -> c

\* str.lower()
Lower(s) == [i \in 1..Len(s) |-> LowerChar(s[i])]

\* s.startswith(p)
StartsWith(s, p) == Len(p) <= Len(s) /\ SubSeq(s, 1, Len(p)) = p

\* index of the first occurrence of character c in s, 0 when there is none
RECURSIVE FirstIndex(_, _, _)
FirstIndex(s, c, i) ==
    IF i > Len(s) THEN 0
    ELSE IF s[i] = c THEN i
    ELSE FirstIndex(s, c, i + 1)

\* str.split(sep): the list of the pieces between the separators; "".split(".") is [""]
RECURSIVE Split(_, _)
Split(s, sep) ==
    LET i == FirstIndex(s, sep, 1)
    IN  IF i = 0 THEN <<s>>
        ELSE <<SubSeq(s, 1, i - 1)>> \o Split(SubSeq(s, i + 1, Len(s)), sep)

\* a list in the order of a set (the order is immaterial to every use below: the
\* loops that walk these lists only add to sets)
RECURSIVE SetToSeq(_)
SetToSeq(S) ==
    IF S = {} THEN <<>>
    ELSE LET x == CHOOSE y \in S : TRUE
         IN  <<x>> \o SetToSeq(S \ {x})

Range(f) == {f[i] : i \in DOMAIN f}

----------------------------------------------------------------------------
\* The data the bounded checks draw from

PackageIds == {<<"a">>, <<"b">>}                 \* packageids of installed mods (stored lowercase)
Targets == {<<"a">>, <<"B">>, <<"c">>}           \* packageIds a rule may name; "c" is never installed
VersionKeys == {<<"v", "1", ".", "4">>, <<"v", "1", ".", "5">>}
GameVersions ==
    { <<>>,                                      \* Version.txt missing or empty
      <<"1">>,                                   \* one component
      <<"1", ".", "4", ".", "3600">> }           \* "1.4.3600"

UnconditionalFields ==
    {"moddependencies", "incompatiblewith", "loadafter", "forceloadafter",
     "loadbefore", "forceloadbefore"}
VersionedFields ==
    {"moddependenciesbyversion", "incompatiblewithbyversion",
     "loadafterbyversion", "loadbeforebyversion"}

NoVersion == <<>>

\* One <li> of a descriptor (About.xml) field: the field, the version key of its block
\* (NoVersion for an unconditional field) and the packageId it names.
Declarations ==
    [field : UnconditionalFields, ver : {NoVersion}, target : Targets]
    \cup [field : VersionedFields, ver : VersionKeys, target : Targets]

Uuids == 1..MaxMods

\* A record as the descriptor parser leaves it: raw fields, no relation sets yet.
NewMod(pid, source, path, pfid, decls) ==
    [packageid |-> pid, data_source |-> source, path |-> path,
     publishedfileid |-> pfid, raw |-> decls,
     dependencies |-> {}, incompatibilities |-> {},
     loadTheseBefore |-> {}, loadTheseAfter |-> {},
     loadBefore |-> {}, loadAfter |-> {}]

\* mod_metadata.get(field, {}).get("li"): the list of an unconditional field
Li(mod, field) ==
    SetToSeq({d.target : d \in {e \in mod.raw : e.field = field /\ e.ver = NoVersion}})

\* mod_metadata.get(field, {}): the version keys of the blocks of a by-version field
BlockKeys(mod, field) == {d.ver : d \in {e \in mod.raw : e.field = field}}

\* block.get("li"): the list of the block of a by-version field under one version key
BlockLi(mod, field, ver) ==
    SetToSeq({d.target : d \in {e \in mod.raw : e.field = field /\ e.ver = ver}})

\* the packageid index as the parser builds it for a store
IndexOf(meta) ==
    [p \in {meta[u].packageid : u \in DOMAIN meta} |->
        {u \in DOMAIN meta : meta[u].packageid = p}]

NoEntries == [k \in {} |-> {}]

\* metadata.get("metadata_file_path"): the About.xml of the record's directory
MetadataFilePath(mod) == Append(mod.path, "About.xml")

\* {metadata.get(key): uuid for uuid, metadata in internal_local_metadata.items()},
\* given the key of each uuid: of the records that share a key the one inserted last
\* stays
MapperOf(keys) ==
    [k \in Range(keys) |->
        CHOOSE u \in DOMAIN keys :
            keys[u] = k /\ \A v \in DOMAIN keys : keys[v] = k => v <= u]

\* uuid -> metadata.get("path") and uuid -> metadata.get("metadata_file_path")
PathsOf(meta) == [u \in DOMAIN meta |-> meta[u].path]
MetadataFilePathsOf(meta) == [u \in DOMAIN meta |-> MetadataFilePath(meta[u])]

\* a mod folder that is not configured: the setting holds "" and names no directory
Unset == {<<"", 0>>}

\* where the owning thread stands when no operation is running
Idle == [at |-> "idle", is_initial |-> FALSE, exists |-> FALSE, uuid |-> 0]

\* the store between operations, its mappers as the last refresh rebuilt them, no
\* parser started and no mod folder configured
NoRefresh ==
    /\ mod_metadata_dir_mapper = MapperOf(PathsOf(internal_local_metadata))
    /\ mod_metadata_file_mapper = MapperOf(MetadataFilePathsOf(internal_local_metadata))
    /\ parser_threadpool = {}
    /\ parser_metadata = <<>>
    /\ pc = Idle
    /\ mod_folders = [s \in {"expansion", "local", "workshop"} |-> Unset]
    /\ uuid4_count = 0
    /\ refreshes = <<>>
    /\ creations = 0

\* no database build and no WebAPI query under way
NoBuilder == [at |-> "idle", apikey |-> 0, mode |-> "", mods |-> {}, update |-> FALSE,
              exists |-> FALSE, publishedfileids |-> <<>>, fetch |-> "none"]
NoWorkshop == [ids |-> <<>>, numperpage |-> 1, children |-> <<>>, published |-> {}]
NoAppIDQuery == [next_cursor |-> "*", pagenum |-> 1, pages |-> 1,
                 publishedfileids |-> <<>>, query |-> FALSE, total |-> 0,
                 cursors |-> <<>>]
NoDynamicQuery == [at |-> "idle", database |-> <<>>, publishedfileids |-> <<>>,
                   missing_children |-> <<>>]
NoBuild ==
    /\ builder = NoBuilder
    /\ workshop = NoWorkshop
    /\ appid_query = NoAppIDQuery
    /\ dynamic_query = NoDynamicQuery

\* the value of the database variables where no database is involved: {}
NoTree == [p \in {<<>>} |-> "dict"]

----------------------------------------------------------------------------
\* Relation helpers (module-level functions of metadata.py).  Each takes the whole
\* store `all_mods` and the uuid of the record `mod_data` refers to, and returns the
\* store after the call.

\* the values handed to add_dependency_to_mod, by Python type
PyStr(s) == [type |-> "str", val |-> s]
PyDict(pid) == [type |-> "dict", packageId |-> pid]
PyList(pids) == [type |-> "list", items |-> pids]

\* add_dependency_to_mod: a dict or a list of dicts adds the lowercased packageIds;
\* any other value (a plain str included) falls through both isinstance branches and
\* leaves the set as setdefault created it.
add_dependency_to_mod(all_mods, uuid, dependency_or_dependency_ids) ==
    LET v == dependency_or_dependency_ids
    IN  CASE v.type = "dict" ->
               [all_mods EXCEPT ![uuid].dependencies = @ \cup {Lower(v.packageId)}]
          [] v.type = "list" ->
               [all_mods EXCEPT ![uuid].dependencies =
                    @ \cup {Lower(v.items[i]) : i \in DOMAIN v.items}]
          [] OTHER -> all_mods

\* a remote dependency recorded as a load-after rule as well
add_dependency_to_mod_from_steamdb_ordered(all_mods, uuid, dependency_id) ==
    [all_mods EXCEPT ![uuid].dependencies = @ \cup {dependency_id},
                     ![uuid].loadTheseBefore = @ \cup {<<dependency_id, TRUE>>}]

\* add_dependency_to_mod_from_steamdb: the resolved packageId is added as it is
add_dependency_to_mod_from_steamdb(all_mods, uuid, dependency_id) ==
    [all_mods EXCEPT ![uuid].dependencies = @ \cup {dependency_id}]

\* add_incompatibility_to_mod without the check against the installed packageids
add_incompatibility_to_mod_unchecked(all_mods, uuid, dependency) ==
    [all_mods EXCEPT ![uuid].incompatibilities = @ \cup {Lower(dependency)}]

\* add_incompatibility_to_mod recording the reverse direction too
add_incompatibility_to_mod_mirrored(all_mods, uuid, dependency) ==
    LET dependency_id == Lower(dependency)
    IN  [u \in DOMAIN all_mods |->
            IF all_mods[u].packageid = dependency_id /\ u # uuid
            THEN [all_mods[u] EXCEPT !.incompatibilities =
                      @ \cup {all_mods[uuid].packageid}]
            ELSE IF u = uuid /\ \E v \in DOMAIN all_mods :
                                     all_mods[v].packageid = dependency_id
            THEN [all_mods[u] EXCEPT !.incompatibilities = @ \cup {dependency_id}]
            ELSE all_mods[u]]

\* add_incompatibility_to_mod (str branch): added only when some record of the store
\* holds the lowercased packageId; nothing is added to the other side
add_incompatibility_to_mod(all_mods, uuid, dependency) ==
    LET all_package_ids == {all_mods[u].packageid : u \in DOMAIN all_mods}
        dependency_id == Lower(dependency)
    IN  IF dependency_id \in all_package_ids
        THEN [all_mods EXCEPT ![uuid].incompatibilities = @ \cup {dependency_id}]
        ELSE all_mods

\* add_load_rule_to_mod without the mirrored tuple on the records of dep
add_load_rule_to_mod_no_mirror(all_mods, uuid, dependency, explicit_key, indirect_key, index) ==
    LET dep == Lower(dependency)
    IN  IF dep \in DOMAIN index
        THEN [all_mods EXCEPT ![uuid][explicit_key] = @ \cup {<<dep, TRUE>>}]
        ELSE all_mods

\* add_load_rule_to_mod (str branch): when the lowercased packageId is a key of the
\* index, (dep, True) goes to the record's explicit_key set and (packageid, False) to
\* the indirect_key set of every uuid the index lists for dep
add_load_rule_to_mod(all_mods, uuid, dependency, explicit_key, indirect_key, index) ==
    LET dep == Lower(dependency)
    IN  IF dep \in DOMAIN index
        THEN LET explicit ==
                     [all_mods EXCEPT ![uuid][explicit_key] = @ \cup {<<dep, TRUE>>}]
             IN  [u \in DOMAIN explicit |->
                    IF u \in index[dep]
                    THEN [explicit[u] EXCEPT ![indirect_key] =
                              @ \cup {<<all_mods[uuid].packageid, FALSE>>}]
                    ELSE explicit[u]]
        ELSE all_mods

----------------------------------------------------------------------------
\* MetadataManager.compile_metadata

\* process_dependencies: every {"packageId": X} of the list is handed to
\* add_dependency_to_mod as the str X and, with dependency_for_sorting set, to
\* add_load_rule_to_mod as a load-after rule
RECURSIVE process_dependencies(_, _, _, _)
process_dependencies(all_mods, uuid, dependencies, index) ==
    IF dependencies = <<>> THEN all_mods
    ELSE LET package_id == Head(dependencies)
             added == add_dependency_to_mod(all_mods, uuid, PyStr(package_id))
             ruled == IF dependency_for_sorting
                      THEN add_load_rule_to_mod(added, uuid, package_id,
                               "loadTheseBefore", "loadTheseAfter", index)
                      ELSE added
         IN  process_dependencies(ruled, uuid, Tail(dependencies), index)

\* process_incompatibilities where a packageId already recorded is taken out again
process_incompatibilities_toggles(all_mods, uuid, incompatibilities) ==
    LET named == {Lower(incompatibilities[i]) : i \in DOMAIN incompatibilities}
        all_package_ids == {all_mods[u].packageid : u \in DOMAIN all_mods}
        known == named \cap all_package_ids
    IN  [all_mods EXCEPT ![uuid].incompatibilities = (@ \ known) \cup (known \ @)]

\* process_incompatibilities
RECURSIVE process_incompatibilities(_, _, _)
process_incompatibilities(all_mods, uuid, incompatibilities) ==
    IF incompatibilities = <<>> THEN all_mods
    ELSE process_incompatibilities(
             add_incompatibility_to_mod(all_mods, uuid, Head(incompatibilities)),
             uuid, Tail(incompatibilities))

\* process_load_order
RECURSIVE process_load_order(_, _, _, _, _, _)
process_load_order(all_mods, uuid, load_these, rule_type, opposite_rule_type, index) ==
    IF load_these = <<>> THEN all_mods
    ELSE process_load_order(
             add_load_rule_to_mod(all_mods, uuid, Head(load_these), rule_type,
                 opposite_rule_type, index),
             uuid, Tail(load_these), rule_type, opposite_rule_type, index)

\* self.game_version.split(".")[:2]
VersionParts(version) ==
    LET parts == Split(version, ".")
    IN  SubSeq(parts, 1, IF Len(parts) < 2 THEN Len(parts) ELSE 2)


\* `major, minor = ...` raises ValueError unless the slice holds two components
UnpackRaises(version) == Len(VersionParts(version)) # 2

\* version_regex = rf"v{major}\.{minor}"
version_regex(version) ==
    <<"v">> \o VersionParts(version)[1] \o <<".">> \o VersionParts(version)[2]

\* a version match on the major component alone
VersionMatch_major_only(regex, version) ==
    StartsWith(version, SubSeq(regex, 1, FirstIndex(regex, ".", 1)))

\* a version match anchored at both ends
VersionMatch_anchored(regex, version) == version = regex

\* re.match(version_regex, version): the key must begin with the pattern, which holds
\* no metacharacter but the escaped dot
VersionMatch(regex, version) == StartsWith(version, regex)

\* every load rule handed over as a load-after rule
ProcessField_all_load_after(all_mods, uuid, field, list, index) ==
    CASE field \in {"moddependencies", "moddependenciesbyversion"} ->
           process_dependencies(all_mods, uuid, list, index)
      [] field \in {"incompatiblewith", "incompatiblewithbyversion"} ->
           process_incompatibilities(all_mods, uuid, list)
      [] OTHER ->
           process_load_order(all_mods, uuid, list, "loadTheseBefore",
               "loadTheseAfter", index)

\* the process_* call compile_metadata makes for the list of one block of `field`
ProcessField(all_mods, uuid, field, list, index) ==
    CASE field \in {"moddependencies", "moddependenciesbyversion"} ->
           process_dependencies(all_mods, uuid, list, index)
      [] field \in {"incompatiblewith", "incompatiblewithbyversion"} ->
           process_incompatibilities(all_mods, uuid, list)
      [] field \in {"loadafter", "forceloadafter", "loadafterbyversion"} ->
           process_load_order(all_mods, uuid, list, "loadTheseBefore",
               "loadTheseAfter", index)
      [] field \in {"loadbefore", "forceloadbefore", "loadbeforebyversion"} ->
           process_load_order(all_mods, uuid, list, "loadTheseAfter",
               "loadTheseBefore", index)

\* One block handed to its process_* function.  st.applied logs the blocks handed over.
ApplyBlock(st, uuid, field, ver, list, index) ==
    [meta |-> ProcessField(st.meta, uuid, field, list, index),
     applied |-> IF list = <<>> THEN st.applied
                 ELSE st.applied \cup {<<uuid, field, ver>>}]

\* an unconditional field: its list is always processed
ApplyUnconditional(st, uuid, field, index) ==
    ApplyBlock(st, uuid, field, NoVersion, Li(st.meta[uuid], field), index)

\* `for version, block in by_version.items(): if match(version_regex, version): ...`
RECURSIVE ApplyVersionBlocks(_, _, _, _, _, _)
ApplyVersionBlocks(st, uuid, field, keys, regex, index) ==
    IF keys = <<>> THEN st
    ELSE LET version == Head(keys)
             next == IF VersionMatch(regex, version)
                     THEN ApplyBlock(st, uuid, field, version,
                              BlockLi(st.meta[uuid], field, version), index)
                     ELSE st
         IN  ApplyVersionBlocks(next, uuid, field, Tail(keys), regex, index)

ApplyVersioned(st, uuid, field, regex, index) ==
    ApplyVersionBlocks(st, uuid, field, SetToSeq(BlockKeys(st.meta[uuid], field)),
        regex, index)

\* the descriptor fields in the order the loop body processes them
FieldOrder ==
    <<"moddependencies", "moddependenciesbyversion", "incompatiblewith",
      "incompatiblewithbyversion", "loadafter", "forceloadafter", "loadafterbyversion",
      "loadbefore", "forceloadbefore", "loadbeforebyversion">>

\* The sections of the loop body, one per field.  The game version is unpacked in the
\* first by-version section, the second of the body.
RECURSIVE CompileFields(_, _, _, _)
CompileFields(st, uuid, fields, index) ==
    IF fields = <<>> THEN [meta |-> st.meta, applied |-> st.applied, error |-> FALSE]
    ELSE IF Head(fields) \in UnconditionalFields
    THEN CompileFields(ApplyUnconditional(st, uuid, Head(fields), index), uuid,
             Tail(fields), index)
    ELSE IF UnpackRaises(game_version)
    THEN [meta |-> st.meta, applied |-> st.applied, error |-> TRUE]
    ELSE CompileFields(
             ApplyVersioned(st, uuid, Head(fields), version_regex(game_version), index),
             uuid, Tail(fields), index)

\* One pass of the `for uuid in uuids` loop body.  The unconditional dependencies are
\* processed before the game version is unpacked, so they are in place when the
\* unpacking raises.
CompileMod(st, uuid, index) == CompileFields(st, uuid, FieldOrder, index)

\* `for uuid in uuids:` a uuid without a record is skipped; an exception ends the loop
RECURSIVE CompileLoop(_, _, _)
CompileLoop(st, uuids, index) ==
    IF uuids = <<>> THEN [meta |-> st.meta, applied |-> st.applied, error |-> FALSE]
    ELSE IF Head(uuids) \notin DOMAIN st.meta
         THEN CompileLoop(st, Tail(uuids), index)
         ELSE LET Continue(done) ==
                      IF done.error THEN done
                      ELSE CompileLoop([meta |-> done.meta, applied |-> done.applied],
                               Tail(uuids), index)
              IN  Continue(CompileMod(st, Head(uuids), index))

\* add_dependency_to_mod_from_steamdb for every (uuid, packageId) pair of a set
RECURSIVE AddSteamDependencies(_, _)
AddSteamDependencies(all_mods, pairs) ==
    IF pairs = <<>> THEN all_mods
    ELSE AddSteamDependencies(
             add_dependency_to_mod_from_steamdb(all_mods, Head(pairs)[1], Head(pairs)[2]),
             Tail(pairs))

\* The SteamDB block of compile_metadata: an installed record whose publishedfileid
\* and packageid match a remote entry gets, as plain dependencies, the packageIds of
\* the entry's dependency ids that the remote database resolves.
CompileSteamDB(all_mods, steamdb, index) ==
    LET named == {p \in DOMAIN steamdb : steamdb[p].packageId # <<>>}
        steam_id_to_package_id == [p \in named |-> Lower(steamdb[p].packageId)]
        potential_uuids(p) ==
            IF steam_id_to_package_id[p] \in DOMAIN index
            THEN index[steam_id_to_package_id[p]] ELSE {}
        tracking_dict(u) ==
            UNION {steamdb[p].dependencies :
                     p \in {q \in named : /\ u \in potential_uuids(q)
                                          /\ all_mods[u].publishedfileid = q}}
        pairs == UNION {{<<u, steam_id_to_package_id[d]>> :
                            d \in tracking_dict(u) \cap named} : u \in DOMAIN all_mods}
    IN  AddSteamDependencies(all_mods, SetToSeq(pairs))

\* add_load_rule_to_mod for every (uuid, load_this) pair of a list
RECURSIVE AddExternalRules(_, _, _, _, _)
AddExternalRules(all_mods, calls, rule_type, opposite_rule_type, index) ==
    IF calls = <<>> THEN all_mods
    ELSE AddExternalRules(
             add_load_rule_to_mod(all_mods, Head(calls)[1], Head(calls)[2], rule_type,
                 opposite_rule_type, index),
             Tail(calls), rule_type, opposite_rule_type, index)

\* process_external_rules: for every rule key whose lowercase form is a key of the
\* index, the entries of its rule_type, loadBottom and loadTop lists are handed to
\* add_load_rule_to_mod for every uuid of that packageid, with rule_type and
\* opposite_rule_type as the record keys
process_external_rules(all_mods, rules, rule_type, opposite_rule_type, index) ==
    LET known == {k \in DOMAIN rules : Lower(k) \in DOMAIN index}
        load_these(k) ==
            Range(rules[k][rule_type]) \cup Range(rules[k].loadBottom)
                \cup Range(rules[k].loadTop)
        calls == UNION {{<<u, t>> : u \in index[Lower(k)] \cap DOMAIN all_mods,
                                    t \in load_these(k)} : k \in known}
    IN  AddExternalRules(all_mods, SetToSeq(calls), rule_type, opposite_rule_type, index)

\* list(self.internal_local_metadata.keys()): uuids are numbered in insertion order
RECURSIVE KeysInOrder(_)
KeysInOrder(S) ==
    IF S = {} THEN <<>>
    ELSE LET m == CHOOSE x \in S : \A y \in S : x <= y
         IN  <<m>> \o KeysInOrder(S \ {m})

\* compile_metadata(uuids): the descriptor loop over `uuids` (all records when the list
\* is empty), then the SteamDB, community-rule and user-rule blocks, which are not
\* scoped by `uuids`.  An exception in the loop ends the call there.
compile_metadata(all_mods, uuids, index) ==
    LET scope == IF uuids = <<>> THEN KeysInOrder(DOMAIN all_mods) ELSE uuids
        steam(meta) ==
            IF DOMAIN external_steam_metadata # {}
            THEN CompileSteamDB(meta, external_steam_metadata, index)
            ELSE meta
        community(meta) ==
            IF DOMAIN external_community_rules # {}
            THEN process_external_rules(
                     process_external_rules(meta, external_community_rules,
                         "loadBefore", "loadAfter", index),
                     external_community_rules, "loadAfter", "loadBefore", index)
            ELSE meta
        user(meta) ==
            IF DOMAIN external_user_rules # {}
            THEN process_external_rules(
                     process_external_rules(meta, external_user_rules,
                         "loadBefore", "loadAfter", index),
                     external_user_rules, "loadAfter", "loadBefore", index)
            ELSE meta
        blocks(looped) ==
            IF looped.error THEN looped
            ELSE [meta |-> user(community(steam(looped.meta))),
                  applied |-> looped.applied, error |-> FALSE]
    IN  blocks(CompileLoop([meta |-> all_mods, applied |-> {}], scope, index))

----------------------------------------------------------------------------
\* Operations on the store

NoOp == [op |-> "init", uuids |-> {}, error |-> FALSE, applied |-> {}, emitted |-> <<>>]

\* compile_metadata over every record, as refresh_cache calls it
CompileAll ==
    /\ \E done \in {compile_metadata(internal_local_metadata, <<>>, packageid_to_uuids)} :
        /\ internal_local_metadata' = done.meta
        /\ last_op' = [op |-> "compile_metadata",
                       uuids |-> DOMAIN internal_local_metadata,
                       error |-> done.error, applied |-> done.applied,
                       emitted |-> <<>>]
    /\ UNCHANGED <<packageid_to_uuids, configVars, listVars, mergeVars, refreshVars>>

\* process_update(batch=False, exists=True): the directory is parsed again (ModParser
\* keeps what it parsed in its own `metadata`; the record in the store stays as it is),
\* then compile_metadata([uuid]) runs and mod_metadata_updated_signal is emitted.  The
\* signal is not reached when the compile raises.
process_update(uuid) ==
    /\ uuid \in DOMAIN internal_local_metadata
    /\ \E done \in {compile_metadata(internal_local_metadata, <<uuid>>, packageid_to_uuids)} :
           /\ internal_local_metadata' = done.meta
           /\ last_op' = [op |-> "process_update", uuids |-> {uuid},
                          error |-> done.error, applied |-> done.applied,
                          emitted |-> IF done.error THEN <<>>
                                      ELSE <<"mod_metadata_updated", uuid>>]
    /\ UNCHANGED <<packageid_to_uuids, configVars, listVars, mergeVars, refreshVars>>

\* the signal is emitted whether or not the uuid had a record
process_deletion_always_emits(uuid) ==
    /\ internal_local_metadata' =
           [u \in DOMAIN internal_local_metadata \ {uuid} |-> internal_local_metadata[u]]
    /\ packageid_to_uuids' =
           [p \in DOMAIN packageid_to_uuids |-> packageid_to_uuids[p] \ {uuid}]
    /\ last_op' = [op |-> "process_deletion", uuids |-> {uuid}, error |-> FALSE,
                   applied |-> {}, emitted |-> <<"mod_deleted", uuid>>]
    /\ UNCHANGED <<configVars, listVars, mergeVars, refreshVars>>

\* process_deletion: a uuid without a record is skipped; otherwise the record is
\* popped, the uuid leaves its packageid group (the key stays, possibly with an empty
\* group) and mod_deleted_signal is emitted
process_deletion(uuid) ==
    /\ IF uuid \notin DOMAIN internal_local_metadata
       THEN /\ UNCHANGED <<internal_local_metadata, packageid_to_uuids>>
            /\ last_op' = [op |-> "process_deletion", uuids |-> {uuid}, error |-> FALSE,
                           applied |-> {}, emitted |-> <<>>]
       ELSE LET deleted_mod_packageid == internal_local_metadata[uuid].packageid
            IN  /\ internal_local_metadata' =
                       [u \in DOMAIN internal_local_metadata \ {uuid} |->
                           internal_local_metadata[u]]
                /\ packageid_to_uuids' =
                       IF /\ deleted_mod_packageid # <<>>
                          /\ deleted_mod_packageid \in DOMAIN packageid_to_uuids
                          /\ packageid_to_uuids[deleted_mod_packageid] # {}
                       THEN [packageid_to_uuids EXCEPT
                                ![deleted_mod_packageid] = @ \ {uuid}]
                       ELSE packageid_to_uuids
                /\ last_op' = [op |-> "process_deletion", uuids |-> {uuid},
                               error |-> FALSE, applied |-> {},
                               emitted |-> <<"mod_deleted", uuid>>]
    /\ UNCHANGED <<configVars, listVars, mergeVars, refreshVars>>

----------------------------------------------------------------------------
\* SpecCompile: stores of up to MaxMods records whose descriptors hold up to MaxRules
\* declarations in all, no external database or rule set configured; then any
\* sequence of compile passes, single updates and deletions.

\* the (uuid, declaration) choices of a store of n records
RECURSIVE SubsetsUpTo(_, _)
SubsetsUpTo(S, k) ==
    IF k = 0 THEN {{}}
    ELSE LET smaller == SubsetsUpTo(S, k - 1)
         IN  smaller \cup {T \cup {x} : T \in smaller, x \in S}

RuleSets(n) == SubsetsUpTo((1..n) \X Declarations, MaxRules)

InitCompile ==
    /\ \E n \in 0..MaxMods :
         \E pids \in [1..n -> PackageIds] :
           \E R \in RuleSets(n) :
             internal_local_metadata =
                 [u \in 1..n |->
                     NewMod(pids[u], "local", <<"mod", u>>, <<>>,
                            {r[2] : r \in {q \in R : q[1] = u}})]
    /\ packageid_to_uuids = IndexOf(internal_local_metadata)
    /\ game_version \in GameVersions
    /\ dependency_for_sorting \in BOOLEAN
    /\ external_steam_metadata = NoEntries
    /\ external_community_rules = NoEntries
    /\ external_user_rules = NoEntries
    /\ last_op = NoOp
    /\ mod_list = <<>>
    /\ list_results = <<>>
    /\ db_to_update = NoTree
    /\ database = NoTree
    /\ merge_results = <<>>
    /\ NoRefresh
    /\ NoBuild

NextCompile ==
    \/ CompileAll
    \/ \E uuid \in Uuids : process_update(uuid)
    \/ \E uuid \in Uuids : process_deletion(uuid)

SpecCompile == InitCompile /\ [][NextCompile]_vars

----------------------------------------------------------------------------
\* Properties of compile_metadata (checked under SpecCompile)

Installed(pid) ==
    \E u \in DOMAIN internal_local_metadata : internal_local_metadata[u].packageid = pid

\* the last operation was a compile pass that returned normally
Compiled == last_op.op \in {"compile_metadata", "process_update"} /\ ~last_op.error

\* the records the last compile pass looped over
Covered == last_op.uuids \cap DOMAIN internal_local_metadata

CompiledAll == Compiled /\ last_op.uuids = DOMAIN internal_local_metadata

\* a version-scoped declaration whose key matches the game version
Applicable(d) ==
    /\ ~UnpackRaises(game_version)
    /\ VersionMatch(version_regex(game_version), d.ver)

V14 == <<"v", "1", ".", "4">>
V15 == <<"v", "1", ".", "5">>
Game_1_4_3600 == <<"1", ".", "4", ".", "3600">>

\* C1: after compile_metadata has run over all records, for installed A and B with A
\* naming B's packageId in loadafter or forceloadafter, (B.packageid, TRUE) is in
\* A.loadTheseBefore and (A.packageid, FALSE) is in the loadTheseAfter of every
\* installed record that shares B's packageid.
C1_LoadAfterPropagates ==
    CompiledAll =>
        \A A \in DOMAIN internal_local_metadata, B \in DOMAIN internal_local_metadata :
            \A d \in internal_local_metadata[A].raw :
                (/\ d.field \in {"loadafter", "forceloadafter"}
                 /\ Lower(d.target) = internal_local_metadata[B].packageid)
                => /\ <<internal_local_metadata[B].packageid, TRUE>>
                          \in internal_local_metadata[A].loadTheseBefore
                   /\ \A C \in DOMAIN internal_local_metadata :
                          internal_local_metadata[C].packageid =
                              internal_local_metadata[B].packageid
                          => <<internal_local_metadata[A].packageid, FALSE>>
                                 \in internal_local_metadata[C].loadTheseAfter

\* C1 witness: a compiled store where record 1 declares "load after" the packageId of
\* record 2, a different mod, and both tuples are in place
C1_Witness ==
    /\ CompiledAll
    /\ DOMAIN internal_local_metadata = {1, 2}
    /\ internal_local_metadata[1].packageid # internal_local_metadata[2].packageid
    /\ \E d \in internal_local_metadata[1].raw :
           /\ d.field = "loadafter"
           /\ Lower(d.target) = internal_local_metadata[2].packageid
    /\ <<internal_local_metadata[2].packageid, TRUE>>
           \in internal_local_metadata[1].loadTheseBefore
    /\ <<internal_local_metadata[1].packageid, FALSE>>
           \in internal_local_metadata[2].loadTheseAfter

\* C11: after compile_metadata has run over all records, for installed A and B with A
\* naming B's packageId in loadbefore or forceloadbefore, (B.packageid, TRUE) is in
\* A.loadTheseAfter and (A.packageid, FALSE) is in the loadTheseBefore of every
\* installed record that shares B's packageid, duplicate copies included.
C11_LoadBeforePropagates ==
    CompiledAll =>
        \A A \in DOMAIN internal_local_metadata, B \in DOMAIN internal_local_metadata :
            \A d \in internal_local_metadata[A].raw :
                (/\ d.field \in {"loadbefore", "forceloadbefore"}
                 /\ Lower(d.target) = internal_local_metadata[B].packageid)
                => /\ <<internal_local_metadata[B].packageid, TRUE>>
                          \in internal_local_metadata[A].loadTheseAfter
                   /\ \A C \in DOMAIN internal_local_metadata :
                          internal_local_metadata[C].packageid =
                              internal_local_metadata[B].packageid
                          => <<internal_local_metadata[A].packageid, FALSE>>
                                 \in internal_local_metadata[C].loadTheseBefore

\* C11 witness: a compiled store of two copies of one packageId where record 1
\* declares "load before" that packageId, spelled in upper case, and both copies
\* hold the mirrored tuple
C11_Witness ==
    /\ CompiledAll
    /\ DOMAIN internal_local_metadata = {1, 2}
    /\ internal_local_metadata[1].packageid = <<"b">>
    /\ internal_local_metadata[2].packageid = <<"b">>
    /\ \E d \in internal_local_metadata[1].raw :
           d.field = "forceloadbefore" /\ d.target = <<"B">>
    /\ <<<<"b">>, TRUE>> \in internal_local_metadata[1].loadTheseAfter
    /\ <<<<"b">>, FALSE>> \in internal_local_metadata[1].loadTheseBefore
    /\ <<<<"b">>, FALSE>> \in internal_local_metadata[2].loadTheseBefore

\* the incompatibility declarations of a record that a compile pass evaluates
IncompatibilityDeclared(mod) ==
    {d \in mod.raw : \/ d.field = "incompatiblewith"
                     \/ d.field = "incompatiblewithbyversion" /\ Applicable(d)}

\* C2 as stated: after compile_metadata, a declared incompatibility X is in
\* A.incompatibilities if some record holds packageid X at compile time, and is not in
\* A.incompatibilities if none does.
C2_IncompatibleIffInstalled ==
    Compiled =>
        \A A \in Covered : \A d \in IncompatibilityDeclared(internal_local_metadata[A]) :
            Installed(Lower(d.target))
                <=> Lower(d.target) \in internal_local_metadata[A].incompatibilities

\* C2 amended: after a compile pass a declared incompatibility X that is installed is
\* in A.incompatibilities, and a pass run while X is not installed does not add X: X is
\* absent after the pass unless it was there before it (a pass removes nothing).
C2_IncompatibleAddedIffInstalled ==
    /\ [](Compiled =>
            \A A \in Covered :
                \A d \in IncompatibilityDeclared(internal_local_metadata[A]) :
                    Installed(Lower(d.target))
                        => Lower(d.target) \in internal_local_metadata[A].incompatibilities)
    /\ [][Compiled' =>
            \A A \in Covered' :
                \A d \in IncompatibilityDeclared(internal_local_metadata[A]) :
                    (/\ ~Installed(Lower(d.target))
                     /\ Lower(d.target) \notin internal_local_metadata[A].incompatibilities)
                    => Lower(d.target) \notin internal_local_metadata'[A].incompatibilities
       ]_vars

\* C2 witness: a compile pass over a record that declares an incompatibility with a
\* packageId nobody holds has left that packageId out
C2_Witness ==
    /\ Compiled
    /\ \E A \in Covered : \E d \in IncompatibilityDeclared(internal_local_metadata[A]) :
           /\ ~Installed(Lower(d.target))
           /\ Lower(d.target) \notin internal_local_metadata[A].incompatibilities

\* what a processed block leaves in the record that declares it: an incompatibility
\* with an installed packageId, the explicit tuple of a load rule that names an indexed
\* packageId (a dependency is also a load-after rule under dependency_for_sorting)
BlockEffect(u, d) ==
    LET mod == internal_local_metadata[u]
        t == Lower(d.target)
    IN  CASE d.field \in {"incompatiblewith", "incompatiblewithbyversion"} ->
               Installed(t) => t \in mod.incompatibilities
          [] d.field \in {"loadafter", "forceloadafter", "loadafterbyversion"} ->
               t \in DOMAIN packageid_to_uuids => <<t, TRUE>> \in mod.loadTheseBefore
          [] d.field \in {"loadbefore", "forceloadbefore", "loadbeforebyversion"} ->
               t \in DOMAIN packageid_to_uuids => <<t, TRUE>> \in mod.loadTheseAfter
          [] OTHER ->
               (dependency_for_sorting /\ t \in DOMAIN packageid_to_uuids)
                   => <<t, TRUE>> \in mod.loadTheseBefore

\* C3: with game version "1.4.3600", compile_metadata hands every version-scoped block
\* keyed "v1.4" to its process function, with the block's effect on the record, and
\* hands over no block keyed "v1.5".
C3_VersionScopedBlocks ==
    (Compiled /\ game_version = Game_1_4_3600) =>
        \A u \in Covered : \A d \in internal_local_metadata[u].raw :
            d.field \in VersionedFields =>
                /\ d.ver = V14 => /\ <<u, d.field, d.ver>> \in last_op.applied
                                  /\ BlockEffect(u, d)
                /\ d.ver = V15 => <<u, d.field, d.ver>> \notin last_op.applied

\* C3 witness: under "1.4.3600" a compiled record holds the explicit tuple of its
\* loadafterbyversion block keyed "v1.4"
C3_Witness ==
    /\ Compiled
    /\ game_version = Game_1_4_3600
    /\ \E u \in Covered : \E d \in internal_local_metadata[u].raw :
           /\ d.field = "loadafterbyversion"
           /\ d.ver = V14
           /\ <<u, d.field, d.ver>> \in last_op.applied
           /\ <<Lower(d.target), TRUE>> \in internal_local_metadata[u].loadTheseBefore

\* the dependency declarations of a record that a compile pass evaluates
DependencyDeclared(mod) ==
    {d \in mod.raw : \/ d.field = "moddependencies"
                     \/ d.field = "moddependenciesbyversion" /\ Applicable(d)}

\* C9: after compile_metadata, every packageId of a record's dependency lists
\* (unconditional, or version-scoped under a matching key) is in the record's
\* dependencies in lowercase, installed or not.
C9_DependenciesRecorded ==
    Compiled =>
        \A u \in Covered : \A d \in DependencyDeclared(internal_local_metadata[u]) :
            Lower(d.target) \in internal_local_metadata[u].dependencies

\* C10: with an empty game version, or one of fewer than two components,
\* compile_metadata completes without error, applies no version-scoped block and
\* applies every unconditional block of every record.
C10_NoVersionStillCompiles ==
    (/\ last_op.op \in {"compile_metadata", "process_update"}
     /\ UnpackRaises(game_version))
    => /\ ~last_op.error
       /\ \A u \in Covered : \A d \in internal_local_metadata[u].raw :
              /\ d.field \in VersionedFields => <<u, d.field, d.ver>> \notin last_op.applied
              /\ d.field \in UnconditionalFields =>
                     /\ <<u, d.field, d.ver>> \in last_op.applied
                     /\ BlockEffect(u, d)

----------------------------------------------------------------------------
\* get_mods_from_list

\* package_id_steam_suffix
SteamSuffix == "_steam"

\* str.replace(package_id_steam_suffix, ""): every occurrence is removed
RemoveSteamSuffix(s) == SelectSeq(s, LAMBDA c : c # SteamSuffix)

\* package_id_steam_suffix in package_id_normalized
ContainsSteamSuffix(s) == \E i \in DOMAIN s : s[i] = SteamSuffix

\* `source in all_mods[uuid]["data_source"]` on the three data source names
SourceIn(source, data_source) == source = data_source

\* the descending order
NaturalLessEq_descending(p, q) == q[2] <= p[2]

\* natsort order of two paths of one data source.  A path is <<folder of the data
\* source, number in the name of the mod directory>>: the folder is the same text on
\* both sides and the numbers compare by value.
NaturalLessEq(p, q) == p[2] <= q[2]

\* natsorted(paths)[0]
FirstNatsorted(paths) == CHOOSE p \in paths : \A q \in paths : NaturalLessEq(p, q)

\* duplicate_mods: packageid -> list of uuids (in store order), groups of one dropped
DuplicateMods(all_mods) ==
    LET index == IndexOf(all_mods)
    IN  [p \in {q \in DOMAIN index : Cardinality(index[q]) > 1} |-> KeysInOrder(index[p])]

\* the `for source in sources_order` loop: the uuid of the first natsorted path of the
\* first source that holds a copy, 0 when no source of the order holds one
RECURSIVE CalculatedDuplicate(_, _, _)
CalculatedDuplicate(all_mods, duplicate_uuids, sources_order) ==
    IF sources_order = <<>> THEN 0
    ELSE LET source == Head(sources_order)
             candidates == {u \in Range(duplicate_uuids) :
                               SourceIn(source, all_mods[u].data_source)}
             source_paths == {all_mods[u].path : u \in candidates}
         IN  IF source_paths # {}
             THEN CHOOSE u \in candidates : all_mods[u].path = FirstNatsorted(source_paths)
             ELSE CalculatedDuplicate(all_mods, duplicate_uuids, Tail(sources_order))

\* the `for uuid, metadata in all_mods.items()` loop for one requested entry
RECURSIVE MatchLoop(_, _, _, _, _, _, _)
MatchLoop(st, all_mods, uuids, normalized, stripped, target_id, sources_order) ==
    IF uuids = <<>> THEN st
    ELSE
    LET uuid == Head(uuids)
        duplicate_mods == DuplicateMods(all_mods)
        next ==
            IF all_mods[uuid].packageid \notin {normalized, stripped} THEN st
            ELSE IF target_id \notin DOMAIN duplicate_mods
            THEN [st EXCEPT !.populated_mods = Append(@, target_id),
                            !.active_mods_uuids = Append(@, uuid)]
            ELSE IF target_id \in Range(st.duplicates_processed) THEN st
            ELSE LET calculated == CalculatedDuplicate(all_mods,
                                       duplicate_mods[target_id], sources_order)
                 IN  IF calculated = 0 THEN st
                     ELSE [st EXCEPT !.populated_mods = Append(@, target_id),
                                     !.duplicates_processed = Append(@, target_id),
                                     !.active_mods_uuids = Append(@, calculated)]
    IN  MatchLoop(next, all_mods, Tail(uuids), normalized, stripped, target_id,
            sources_order)

\* the Workshop priority whatever the marker says
SourcesOrder_always_workshop(is_steam) == <<"workshop", "local">>

\* the standard priority whatever the marker says
SourcesOrder_ignores_marker(is_steam) == <<"expansion", "local", "workshop">>

\* sources_order: workshop first when the entry carried the marker
SourcesOrder(is_steam) ==
    IF is_steam THEN <<"workshop", "local">>
    ELSE <<"expansion", "local", "workshop">>

\* the `for package_id in package_ids_to_import` loop
RECURSIVE RequestLoop(_, _, _)
RequestLoop(st, all_mods, package_ids) ==
    IF package_ids = <<>> THEN st
    ELSE
    LET package_id_normalized == Lower(Head(package_ids))
        package_id_normalized_stripped == RemoveSteamSuffix(package_id_normalized)
        is_steam == ContainsSteamSuffix(package_id_normalized)
        target_id == IF is_steam THEN package_id_normalized_stripped
                     ELSE package_id_normalized
        sources_order == SourcesOrder(is_steam)
        noted == [st EXCEPT !.to_populate = Append(@, target_id)]
    IN  RequestLoop(
            MatchLoop(noted, all_mods, KeysInOrder(DOMAIN all_mods),
                package_id_normalized, package_id_normalized_stripped, target_id,
                sources_order),
            all_mods, Tail(package_ids))

\* the lists get_mods_from_list has built when its request loop ends
ListsBuilt(all_mods, package_ids) ==
    RequestLoop([active_mods_uuids |-> <<>>, populated_mods |-> <<>>,
                 to_populate |-> <<>>, duplicates_processed |-> <<>>],
        all_mods, package_ids)

\* set(to_populate) - set(populated_mods)
MissingSet(built) == Range(built.to_populate) \ Range(built.populated_mods)

\* list(a_set): the elements in the iteration order of the set, which for a set of
\* str depends on the hash seed of the interpreter; any order can come out
ListsOfSet(S) ==
    {l \in [1..Cardinality(S) -> S] : \A i, j \in DOMAIN l : i # j => l[i] # l[j]}

\* every uuid of the store
InactiveMods_all(all_mods, active_mods_uuids) == KeysInOrder(DOMAIN all_mods)

\* [uuid for uuid in all_mods.keys() if uuid not in active_mods_uuids]
InactiveMods(all_mods, active_mods_uuids) ==
    SelectSeq(KeysInOrder(DOMAIN all_mods), LAMBDA u : u \notin Range(active_mods_uuids))

\* get_mods_from_list(mod_list) on the store: the four lists it returns.  The store
\* is read, not written.
get_mods_from_list ==
    /\ Len(list_results) < MaxCalls
    /\ LET built == ListsBuilt(internal_local_metadata, mod_list)
       IN  \E missing_mods \in ListsOfSet(MissingSet(built)) :
               list_results' = Append(list_results,
                   [active |-> built.active_mods_uuids,
                    inactive |-> InactiveMods(internal_local_metadata,
                                     built.active_mods_uuids),
                    duplicates |-> DuplicateMods(internal_local_metadata),
                    missing |-> missing_mods])
    /\ UNCHANGED <<storeVars, configVars, last_op, mod_list, mergeVars, refreshVars>>

----------------------------------------------------------------------------
\* SpecList: stores of up to MaxMods records over three packageids (one of them
\* spelled with the marker, as a descriptor may spell it), the three data
\* sources and distinct paths, a request of up to MaxRequest entries, and up to
\* MaxCalls calls of get_mods_from_list.

ListPackageIds == {<<"x">>, <<"y">>, <<"x", "_steam">>}
DataSources == {"expansion", "local", "workshop"}
PathNumbers == {2, 10}
RequestEntries ==
    {<<"x">>, <<"X", "_STEAM">>, <<"y">>, <<"y", "_steam">>, <<"x", "_steam", "x">>}

RECURSIVE SeqsUpTo(_, _)
SeqsUpTo(S, k) ==
    IF k = 0 THEN {<<>>}
    ELSE LET shorter == SeqsUpTo(S, k - 1)
         IN  shorter \cup {Append(q, x) : q \in shorter, x \in S}

InitList ==
    /\ \E n \in 0..MaxMods :
         \E pids \in [1..n -> ListPackageIds], sources \in [1..n -> DataSources],
            numbers \in [1..n -> PathNumbers] :
           /\ \A u, v \in 1..n :
                  (u # v /\ sources[u] = sources[v]) => numbers[u] # numbers[v]
           /\ internal_local_metadata =
                  [u \in 1..n |->
                      NewMod(pids[u], sources[u], <<sources[u], numbers[u]>>, <<>>, {})]
    /\ packageid_to_uuids = IndexOf(internal_local_metadata)
    /\ game_version = Game_1_4_3600
    /\ dependency_for_sorting = FALSE
    /\ external_steam_metadata = NoEntries
    /\ external_community_rules = NoEntries
    /\ external_user_rules = NoEntries
    /\ last_op = NoOp
    /\ mod_list \in SeqsUpTo(RequestEntries, MaxRequest)
    /\ list_results = <<>>
    /\ db_to_update = NoTree
    /\ database = NoTree
    /\ merge_results = <<>>
    /\ NoRefresh
    /\ NoBuild

NextList == get_mods_from_list

SpecList == InitList /\ [][NextList]_vars

----------------------------------------------------------------------------
\* Properties of get_mods_from_list (checked under SpecList)

\* the target packageId of a requested entry: lowercased, marker stripped
TargetOf(entry) == RemoveSteamSuffix(Lower(entry))

\* the entry carries the marker
Marked(entry) == ContainsSteamSuffix(Lower(entry))

RequestedTargets == {TargetOf(mod_list[i]) : i \in DOMAIN mod_list}

HasCopy(pid, source) ==
    \E u \in DOMAIN internal_local_metadata :
        /\ internal_local_metadata[u].packageid = pid
        /\ internal_local_metadata[u].data_source = source

\* C4: two calls of get_mods_from_list on the same store with the same request
\* return the same active, inactive, duplicates and missing, element order included.
C4_Deterministic ==
    \A i \in DOMAIN list_results, j \in DOMAIN list_results :
        list_results[i] = list_results[j]

\* C5: missing holds exactly the requested target packageIds that no installed
\* record has, and active holds no id for such a packageId.
C5_MissingExact ==
    \A i \in DOMAIN list_results :
        /\ Range(list_results[i].missing) = {t \in RequestedTargets : ~Installed(t)}
        /\ \A u \in Range(list_results[i].active) :
               internal_local_metadata[u].packageid \in RequestedTargets

\* C7 as stated: a packageId with a local and a workshop copy that the request names
\* with the marker gets its workshop copy, and not its local copy, into active.
C7_SteamMarkerPicksWorkshop ==
    \A i \in DOMAIN list_results : \A k \in DOMAIN mod_list :
        (/\ Marked(mod_list[k])
         /\ HasCopy(TargetOf(mod_list[k]), "local")
         /\ HasCopy(TargetOf(mod_list[k]), "workshop"))
        => /\ \E u \in Range(list_results[i].active) :
                  /\ internal_local_metadata[u].packageid = TargetOf(mod_list[k])
                  /\ internal_local_metadata[u].data_source = "workshop"
           /\ \A u \in Range(list_results[i].active) :
                  internal_local_metadata[u].packageid = TargetOf(mod_list[k])
                      => internal_local_metadata[u].data_source # "local"

\* the first entry of the request that names the target of entry k is entry k itself
FirstFor(k) == \A j \in 1..(k - 1) : TargetOf(mod_list[j]) # TargetOf(mod_list[k])

\* C7 amended: the same, when the first entry of the request that names the
\* packageId is one with the marker (a duplicate packageId is resolved once, by the
\* first entry that names it).
C7_FirstSteamMarkerPicksWorkshop ==
    \A i \in DOMAIN list_results : \A k \in DOMAIN mod_list :
        (/\ Marked(mod_list[k])
         /\ FirstFor(k)
         /\ HasCopy(TargetOf(mod_list[k]), "local")
         /\ HasCopy(TargetOf(mod_list[k]), "workshop"))
        => /\ \E u \in Range(list_results[i].active) :
                  /\ internal_local_metadata[u].packageid = TargetOf(mod_list[k])
                  /\ internal_local_metadata[u].data_source = "workshop"
           /\ \A u \in Range(list_results[i].active) :
                  internal_local_metadata[u].packageid = TargetOf(mod_list[k])
                      => internal_local_metadata[u].data_source # "local"

\* C7 witness: a local and a workshop copy of "x", the request <<"X_STEAM">>, and a
\* call that returned the workshop copy alone
C7_Witness ==
    /\ Len(list_results) >= 1
    /\ mod_list = << <<"X", "_STEAM">> >>
    /\ HasCopy(<<"x">>, "local")
    /\ HasCopy(<<"x">>, "workshop")
    /\ Len(list_results[1].active) = 1
    /\ internal_local_metadata[list_results[1].active[1]].data_source = "workshop"

----------------------------------------------------------------------------
\* recursively_update_dict
\*
\* A JSON tree is a function from the paths of its nodes (sequences of keys, <<>> the
\* root) to "dict" for a nested mapping and to the scalar otherwise.  A scalar on
\* its own is the tree with the single path <<>>.

IsDict(tree) == tree[<<>>] = "dict"

\* dict.keys()
Keys(tree) == {p[1] : p \in {q \in DOMAIN tree : q # <<>>}}

\* a_dict[key]
Sub(tree, key) ==
    [p \in {Tail(q) : q \in {r \in DOMAIN tree : r # <<>> /\ r[1] = key}}
        |-> tree[<<key>> \o p]]

\* the items of a dict, key -> value
Items(tree) == [k \in Keys(tree) |-> Sub(tree, k)]

\* the dict of the given items
DictOf(items) ==
    [p \in {<<>>} \cup UNION {{<<k>> \o q : q \in DOMAIN items[k]} : k \in DOMAIN items}
        |-> IF p = <<>> THEN "dict" ELSE items[p[1]][Tail(p)]]

\* isinstance(value, dict) and not value
IsEmptyDict(tree) == IsDict(tree) /\ Keys(tree) = {}

\* no key is deleted
Without_nothing(items, keys) == items

\* del a_dict[key] for every key of the given set
Without(items, keys) == [k \in DOMAIN items \ keys |-> items[k]]

\* DB_BUILDER_RECURSE_EXCEPTIONS and DB_BUILDER_PRUNE_EXCEPTIONS of
\* app/utils/constants.py: the keys overwritten wholesale, and the keys that may
\* keep an empty mapping
DB_BUILDER_RECURSE_EXCEPTIONS == {"blacklist"}
DB_BUILDER_PRUNE_EXCEPTIONS == {"database"}

\* the exception keys of the existing tree stay when the fresh tree lacks them
RemoveExceptionKeys_keeps(a_items, b_keys, recurse_exceptions) == a_items

\* the first loop: keys of a_dict that b_dict lacks and that are recurse exceptions
\* are deleted
RemoveExceptionKeys(a_items, b_keys, recurse_exceptions) ==
    Without(a_items, (DOMAIN a_items \ b_keys) \cap recurse_exceptions)

\* no key is pruned
PruneEmpty_keeps_all(items, prune_exceptions) == items

\* the pruning loop: keys that hold an empty dict and are no prune exception go
PruneEmpty(items, prune_exceptions) ==
    Without(items, {k \in DOMAIN items :
                       IsEmptyDict(items[k]) /\ k \notin prune_exceptions})

\* recursively_update_dict(a_dict, b_dict, ...): the value of a_dict when it returns
RECURSIVE recursively_update_dict(_, _, _, _, _)
recursively_update_dict(a_dict, b_dict, prune_exceptions, purge_keys, recurse_exceptions) ==
    LET b_items == Items(b_dict)
        kept == RemoveExceptionKeys(Items(a_dict), DOMAIN b_items, recurse_exceptions)
        updated ==
            [key \in DOMAIN kept \cup DOMAIN b_items |->
                IF key \notin DOMAIN b_items THEN kept[key]
                ELSE IF key \in recurse_exceptions THEN b_items[key]
                ELSE IF key \in DOMAIN kept /\ IsDict(kept[key]) /\ IsDict(b_items[key])
                THEN recursively_update_dict(kept[key], b_items[key],
                         prune_exceptions, purge_keys, recurse_exceptions)
                ELSE b_items[key]]
        pruned == PruneEmpty(updated, prune_exceptions)
    IN  DictOf(Without(pruned, purge_keys))

\* SteamDatabaseBuilder._output_database(database) with `update` configured and the
\* database file present: the file is read, updated with the fresh database and
\* written back.  merge_results logs the file before and after.
_output_database ==
    /\ Len(merge_results) < MaxMerges
    /\ LET merged == recursively_update_dict(db_to_update, database,
                         DB_BUILDER_PRUNE_EXCEPTIONS, {}, DB_BUILDER_RECURSE_EXCEPTIONS)
       IN  /\ db_to_update' = merged
           /\ merge_results' = Append(merge_results,
                                   [existing |-> db_to_update, merged |-> merged])
    /\ UNCHANGED <<storeVars, configVars, last_op, listVars, database, buildVars,
                   refreshVars>>

----------------------------------------------------------------------------
\* SpecMerge: a database file and a fresh database, each a tree of up to MaxNodes
\* keys and two levels, and up to MaxMerges runs of _output_database with the same
\* fresh database.

TreeKeys == {"123", "steamName", "blacklist", "database"}

\* a scalar, and the empty mapping
Scalar(value) == [p \in {<<>>} |-> value]
EmptyDict == [p \in {<<>>} |-> "dict"]

\* the node sets of the trees: prefix-closed sets of up to MaxNodes paths of length
\* one or two
PathSets ==
    {S \in SubsetsUpTo({<<k>> : k \in TreeKeys}
                          \cup {<<k, j>> : k \in TreeKeys, j \in TreeKeys}, MaxNodes) :
        \A p \in S : Len(p) = 2 => <<p[1]>> \in S}

\* the trees on the node sets: an inner node is a mapping, an end node is the scalar
\* or the empty mapping
TreesOf(scalar) ==
    UNION {
        {[p \in S \cup {<<>>} |->
             IF p = <<>> \/ (\E q \in S : Len(q) > Len(p) /\ q[1] = p[1]) THEN "dict"
             ELSE IF p \in E THEN "dict" ELSE scalar] :
         E \in SUBSET {p \in S : ~\E q \in S : Len(q) > Len(p) /\ q[1] = p[1]}}
        : S \in PathSets}

InitMerge ==
    /\ internal_local_metadata = <<>>
    /\ packageid_to_uuids = IndexOf(<<>>)
    /\ game_version = Game_1_4_3600
    /\ dependency_for_sorting = FALSE
    /\ external_steam_metadata = NoEntries
    /\ external_community_rules = NoEntries
    /\ external_user_rules = NoEntries
    /\ last_op = NoOp
    /\ mod_list = <<>>
    /\ list_results = <<>>
    /\ db_to_update \in TreesOf("old")
    /\ database \in TreesOf("new")
    /\ merge_results = <<>>
    /\ NoRefresh
    /\ NoBuild

NextMerge == _output_database

SpecMerge == InitMerge /\ [][NextMerge]_vars

----------------------------------------------------------------------------
\* Properties of recursively_update_dict (checked under SpecMerge)

\* C6: merging the same fresh database into the database file a second time leaves
\* the result of the first merge as it is.
C6_MergeIdempotent ==
    Len(merge_results) >= 2 => merge_results[2].merged = merge_results[1].merged

\* entry `id` is a mapping on both sides, the existing one holds `key` and the fresh
\* one does not mention it
KeyOnlyInExisting(existing, id, key) ==
    /\ id \in Keys(existing) /\ id \in Keys(database)
    /\ IsDict(Sub(existing, id)) /\ IsDict(Sub(database, id))
    /\ key \in Keys(Sub(existing, id))
    /\ key \notin Keys(Sub(database, id))

\* entry `id` of the merged tree holds every scalar of the fresh entry
HoldsFreshScalars(merged, id) ==
    /\ id \in Keys(merged)
    /\ \A k \in Keys(Sub(database, id)) :
           ~IsDict(Sub(Sub(database, id), k))
           => /\ k \in Keys(Sub(merged, id))
              /\ Sub(Sub(merged, id), k) = Sub(Sub(database, id), k)

----------------------------------------------------------------------------
\* SpecExternal: stores of up to MaxMods Workshop records without descriptor rules, a
\* remote database (SteamDB) of up to two entries, up to MaxRules rules spread over the
\* community and the user rule set (a store is checked with the database or with the
\* rules); then any sequence of compile passes, single updates and deletions.

PublishedFileIds == {<<"1">>, <<"2">>}

\* Remote entries: "1" is the mod "A", which may depend on "2" (an entry) and on "3"
\* (no entry); "2" may lack its packageId.
SteamEntries(pfid) ==
    IF pfid = <<"1">>
    THEN [packageId : {<<"A">>}, dependencies : SUBSET {<<"2">>, <<"3">>}]
    ELSE [packageId : {<<>>, <<"b">>}, dependencies : {{}}]

SteamDatabases ==
    UNION {{db \in [D -> UNION {SteamEntries(p) : p \in D}] :
               \A p \in D : db[p] \in SteamEntries(p)} : D \in SUBSET PublishedFileIds}

RuleKeys == {<<"a">>, <<"B">>}
RuleBuckets == {"loadBefore", "loadAfter", "loadBottom", "loadTop"}

\* the rule data of one packageId holding every (bucket, target) of a set, one target
\* per bucket
RuleDataOf(S) ==
    [b \in RuleBuckets |-> SetToSeq({r[2] : r \in {q \in S : q[1] = b}})]

\* the rule sets a set of (key, bucket, target) choices makes
RuleSetOf(S) ==
    [k \in {r[1] : r \in S} |-> RuleDataOf({<<r[2], r[3]>> : r \in {q \in S : q[1] = k}})]

RuleChoices == {"community", "user"} \X RuleKeys \X RuleBuckets \X Targets

InitExternal ==
    /\ \E n \in 0..MaxMods :
         \E pids \in [1..n -> PackageIds], pfids \in [1..n -> {<<>>, <<"1">>}] :
           internal_local_metadata =
               [u \in 1..n |-> NewMod(pids[u], "workshop", <<"workshop", u>>, pfids[u], {})]
    /\ packageid_to_uuids = IndexOf(internal_local_metadata)
    /\ game_version = Game_1_4_3600
    /\ dependency_for_sorting = FALSE
    /\ external_steam_metadata \in SteamDatabases
    /\ \E R \in SubsetsUpTo(RuleChoices, MaxRules) :
         /\ R = {} \/ DOMAIN external_steam_metadata = {}
         /\ external_community_rules =
                RuleSetOf({<<r[2], r[3], r[4]>> : r \in {q \in R : q[1] = "community"}})
         /\ external_user_rules =
                RuleSetOf({<<r[2], r[3], r[4]>> : r \in {q \in R : q[1] = "user"}})
    /\ last_op = NoOp
    /\ mod_list = <<>>
    /\ list_results = <<>>
    /\ db_to_update = NoTree
    /\ database = NoTree
    /\ merge_results = <<>>
    /\ NoRefresh
    /\ NoBuild

NextExternal ==
    \/ CompileAll
    \/ \E uuid \in Uuids : process_update(uuid)
    \/ \E uuid \in Uuids : process_deletion(uuid)

SpecExternal == InitExternal /\ [][NextExternal]_vars

----------------------------------------------------------------------------
\* Properties of the external blocks of compile_metadata (checked under SpecExternal)

\* the uuids of the records with a packageid
CopiesOf(pid) ==
    {u \in DOMAIN internal_local_metadata : internal_local_metadata[u].packageid = pid}

\* rule key P of a rule set names installed target T in its `bucket` list: every copy
\* of P holds (T, TRUE) under explicit_key and every copy of T holds (P, FALSE) under
\* indirect_key
RulePropagated(rules, bucket, explicit_key, indirect_key) ==
    \A k \in DOMAIN rules : \A t \in Range(rules[k][bucket]) :
        (Installed(Lower(k)) /\ Installed(Lower(t)))
        => /\ \A u \in CopiesOf(Lower(k)) :
                  <<Lower(t), TRUE>> \in internal_local_metadata[u][explicit_key]
           /\ \A v \in CopiesOf(Lower(t)) :
                  <<Lower(k), FALSE>> \in internal_local_metadata[v][indirect_key]

\* C12: after compile_metadata, a loadAfter rule of the community or the user rule set
\* between installed packageIds P and T leaves (T, TRUE) in the loadTheseBefore of
\* every copy of P and (P, FALSE) in the loadTheseAfter of every copy of T; a
\* loadBefore rule the same with the two sets swapped.
C12_ExternalRulesPropagate ==
    Compiled =>
        /\ RulePropagated(external_community_rules, "loadAfter",
               "loadTheseBefore", "loadTheseAfter")
        /\ RulePropagated(external_community_rules, "loadBefore",
               "loadTheseAfter", "loadTheseBefore")
        /\ RulePropagated(external_user_rules, "loadAfter",
               "loadTheseBefore", "loadTheseAfter")
        /\ RulePropagated(external_user_rules, "loadBefore",
               "loadTheseAfter", "loadTheseBefore")

\* the remote entries that match record u: its publishedfileid is the entry's key and
\* its packageid the entry's lowercased packageId
MatchingEntries(u) ==
    {p \in DOMAIN external_steam_metadata :
        /\ internal_local_metadata[u].publishedfileid = p
        /\ external_steam_metadata[p].packageId # <<>>
        /\ Lower(external_steam_metadata[p].packageId) = internal_local_metadata[u].packageid}

\* the dependency ids of an entry that the remote database resolves to a packageId
Resolved(p) ==
    {d \in external_steam_metadata[p].dependencies :
        /\ d \in DOMAIN external_steam_metadata
        /\ external_steam_metadata[d].packageId # <<>>}

\* C13: after compile_metadata with a remote database configured, a record that
\* matches a remote entry holds in its dependencies the packageId of every dependency
\* id of the entry that the database resolves; and a pass over records without
\* descriptor rules, with no rule set configured, leaves the incompatibilities,
\* loadTheseBefore and loadTheseAfter of every record as they were.
C13_RemoteDependenciesOnly ==
    /\ [](Compiled =>
            \A u \in DOMAIN internal_local_metadata : \A p \in MatchingEntries(u) :
                \A d \in Resolved(p) :
                    Lower(external_steam_metadata[d].packageId)
                        \in internal_local_metadata[u].dependencies)
    /\ [][(/\ Compiled'
           /\ DOMAIN external_steam_metadata # {}
           /\ DOMAIN external_community_rules = {}
           /\ DOMAIN external_user_rules = {})
          => \A u \in DOMAIN internal_local_metadata :
                 /\ internal_local_metadata'[u].incompatibilities
                        = internal_local_metadata[u].incompatibilities
                 /\ internal_local_metadata'[u].loadTheseBefore
                        = internal_local_metadata[u].loadTheseBefore
                 /\ internal_local_metadata'[u].loadTheseAfter
                        = internal_local_metadata[u].loadTheseAfter
       ]_vars

\* C13 witness: record "a" with publishedfileid "1" matches the remote entry "1",
\* whose dependencies "2" (resolved to "b") and "3" (no entry) left "b" alone in the
\* record's dependencies
C13_Witness ==
    /\ Compiled
    /\ \E u \in DOMAIN internal_local_metadata :
           /\ <<"1">> \in MatchingEntries(u)
           /\ external_steam_metadata[<<"1">>].dependencies = {<<"2">>, <<"3">>}
           /\ Resolved(<<"1">>) = {<<"2">>}
           /\ internal_local_metadata[u].dependencies = {<<"b">>}
           /\ internal_local_metadata[u].loadTheseBefore = {}

----------------------------------------------------------------------------
\* Properties of the duplicate resolution of get_mods_from_list (checked under
\* SpecList)

\* the packageid has several installed copies
Duplicated(pid) == Cardinality(CopiesOf(pid)) > 1

\* the first data source of an order that holds a copy of the packageid, "" if none
RECURSIVE FirstSourceWith(_, _)
FirstSourceWith(pid, order) ==
    IF order = <<>> THEN ""
    ELSE IF HasCopy(pid, Head(order)) THEN Head(order)
    ELSE FirstSourceWith(pid, Tail(order))

StandardOrder == <<"expansion", "local", "workshop">>

\* the ids of a returned active list that hold the packageid
ActiveCopies(result, pid) == Range(result.active) \cap CopiesOf(pid)

\* C14 as stated: for an entry without the marker whose packageId has several
\* copies, active holds a copy from the first of expansion, local, workshop that has
\* one, and no copy from a later source.
C14_StandardPriority ==
    \A i \in DOMAIN list_results : \A k \in DOMAIN mod_list :
        (~Marked(mod_list[k]) /\ Duplicated(TargetOf(mod_list[k])))
        => /\ ActiveCopies(list_results[i], TargetOf(mod_list[k])) # {}
           /\ \A u \in ActiveCopies(list_results[i], TargetOf(mod_list[k])) :
                  internal_local_metadata[u].data_source
                      = FirstSourceWith(TargetOf(mod_list[k]), StandardOrder)

\* C14 amended: the same, when the entry without the marker is the first entry of the
\* request that names the packageId.
C14_FirstEntryStandardPriority ==
    \A i \in DOMAIN list_results : \A k \in DOMAIN mod_list :
        (~Marked(mod_list[k]) /\ FirstFor(k) /\ Duplicated(TargetOf(mod_list[k])))
        => /\ ActiveCopies(list_results[i], TargetOf(mod_list[k])) # {}
           /\ \A u \in ActiveCopies(list_results[i], TargetOf(mod_list[k])) :
                  internal_local_metadata[u].data_source
                      = FirstSourceWith(TargetOf(mod_list[k]), StandardOrder)

\* C14 witness: "y" has a workshop copy (stored first) and a local copy, the request
\* <<"y">> got the local copy
C14_Witness ==
    /\ Len(list_results) >= 1
    /\ mod_list = << <<"y">> >>
    /\ DOMAIN internal_local_metadata = {1, 2}
    /\ internal_local_metadata[1].packageid = <<"y">>
    /\ internal_local_metadata[1].data_source = "workshop"
    /\ internal_local_metadata[2].packageid = <<"y">>
    /\ internal_local_metadata[2].data_source = "local"
    /\ list_results[1].active = <<2>>

\* C15: when a requested packageId has several copies and the first source of the
\* priority order (that of the entry that resolves it) holding a copy is found, active
\* holds one copy of the packageId: the copy of that source whose path comes first in
\* natural order.
C15_FirstNaturalPath ==
    \A i \in DOMAIN list_results : \A k \in DOMAIN mod_list :
        LET target_id == TargetOf(mod_list[k])
            source == FirstSourceWith(target_id, SourcesOrder(Marked(mod_list[k])))
        IN  (FirstFor(k) /\ Duplicated(target_id) /\ source # "")
            => \E u \in CopiesOf(target_id) :
                   /\ internal_local_metadata[u].data_source = source
                   /\ \A v \in CopiesOf(target_id) :
                          internal_local_metadata[v].data_source = source
                          => internal_local_metadata[u].path[2]
                                 <= internal_local_metadata[v].path[2]
                   /\ ActiveCopies(list_results[i], target_id) = {u}

\* C15 witness: two local copies of "x", the one stored first under path number 10 and
\* the other under 2; the request <<"x">> got the second
C15_Witness ==
    /\ Len(list_results) >= 1
    /\ mod_list = << <<"x">> >>
    /\ DOMAIN internal_local_metadata = {1, 2}
    /\ internal_local_metadata[1] = NewMod(<<"x">>, "local", <<"local", 10>>, <<>>, {})
    /\ internal_local_metadata[2] = NewMod(<<"x">>, "local", <<"local", 2>>, <<>>, {})
    /\ list_results[1].active = <<2>>

\* C16: a packageId with several installed copies has at most one id in active,
\* whatever the request.
C16_OneCopyActive ==
    \A i \in DOMAIN list_results : \A pid \in ListPackageIds :
        Duplicated(pid) => Cardinality(ActiveCopies(list_results[i], pid)) <= 1

\* C17: inactive holds exactly the ids of the store that are not in active: every id
\* of the store is in active or in inactive and none is in both.
C17_InactiveIsComplement ==
    \A i \in DOMAIN list_results :
        /\ Range(list_results[i].inactive)
               = DOMAIN internal_local_metadata \ Range(list_results[i].active)
        /\ Range(list_results[i].active) \cup Range(list_results[i].inactive)
               = DOMAIN internal_local_metadata
        /\ Range(list_results[i].active) \cap Range(list_results[i].inactive) = {}

\* C17 witness: of the two records of a store the request activated the second, and
\* the first is the inactive list
C17_Witness ==
    /\ Len(list_results) >= 1
    /\ DOMAIN internal_local_metadata = {1, 2}
    /\ list_results[1].active = <<2>>
    /\ list_results[1].inactive = <<1>>

\* the lowercased entry ends with the marker
EndsWithSteamSuffix(entry) ==
    Len(entry) > 0 /\ Lower(entry)[Len(entry)] = SteamSuffix

\* the target of an entry when the marker counts as a suffix only: the lowercased
\* entry without its trailing marker
SuffixTargetOf(entry) ==
    IF EndsWithSteamSuffix(entry) THEN SubSeq(Lower(entry), 1, Len(entry) - 1)
    ELSE Lower(entry)

\* C18: the marker is a suffix: an entry is a Workshop request only when its
\* lowercased form ends with the marker, and its target is the entry without that
\* trailing marker; an entry holding the marker elsewhere is a plain packageId.  So
\* the packageIds reported missing are such targets of requested entries.
C18_SteamMarkerIsSuffix ==
    \A i \in DOMAIN list_results :
        Range(list_results[i].missing)
            \subseteq {SuffixTargetOf(mod_list[k]) : k \in DOMAIN mod_list}

----------------------------------------------------------------------------
\* Properties of the levels recursively_update_dict visits (checked under SpecMerge)

\* The levels of a merge: the root, and every key that is not exception-managed and
\* holds a mapping on both sides.  (Trees have two levels of keys.)
VisitedLevels(existing) ==
    {<<>>} \cup {<<id>> : id \in {k \in Keys(existing) \cap Keys(database) :
                                    /\ k \notin DB_BUILDER_RECURSE_EXCEPTIONS
                                    /\ IsDict(Sub(existing, k))
                                    /\ IsDict(Sub(database, k))}}

\* the mapping a tree holds at a level; the empty mapping when the level is gone
AtLevel(tree, level) ==
    IF level = <<>> THEN tree
    ELSE IF level[1] \in Keys(tree) THEN Sub(tree, level[1])
    ELSE EmptyDict

\* C19 as stated: at every visited level, an exception-managed key the fresh tree
\* holds is in the result with exactly the fresh value, and one that only the
\* existing tree held is not in the result.
C19_ExceptionKeysMirrorFresh ==
    \A i \in DOMAIN merge_results : \A level \in VisitedLevels(merge_results[i].existing) :
        LET a == AtLevel(merge_results[i].existing, level)
            b == AtLevel(database, level)
            r == AtLevel(merge_results[i].merged, level)
        IN  \A key \in DB_BUILDER_RECURSE_EXCEPTIONS :
                /\ key \in Keys(b) => (key \in Keys(r) /\ Sub(r, key) = Sub(b, key))
                /\ key \in Keys(a) \ Keys(b) => key \notin Keys(r)

\* C19 amended: the same, except that an exception-managed key whose fresh value is
\* an empty mapping is pruned from the result like any other key (unless the key is
\* prune-exempt).
C19_ExceptionKeysMirrorFreshUnlessPruned ==
    \A i \in DOMAIN merge_results : \A level \in VisitedLevels(merge_results[i].existing) :
        LET a == AtLevel(merge_results[i].existing, level)
            b == AtLevel(database, level)
            r == AtLevel(merge_results[i].merged, level)
        IN  \A key \in DB_BUILDER_RECURSE_EXCEPTIONS :
                /\ key \in Keys(b)
                   => IF IsEmptyDict(Sub(b, key)) /\ key \notin DB_BUILDER_PRUNE_EXCEPTIONS
                      THEN key \notin Keys(r)
                      ELSE key \in Keys(r) /\ Sub(r, key) = Sub(b, key)
                /\ key \in Keys(a) \ Keys(b) => key \notin Keys(r)

\* C19 witness: both trees hold a mapping under "blacklist", with different keys; the
\* result holds the fresh mapping and nothing of the existing one
C19_Witness ==
    /\ Len(merge_results) >= 1
    /\ "blacklist" \in Keys(merge_results[1].existing)
    /\ Keys(Sub(merge_results[1].existing, "blacklist")) = {"123"}
    /\ "blacklist" \in Keys(database)
    /\ Keys(Sub(database, "blacklist")) = {"steamName"}
    /\ Sub(merge_results[1].merged, "blacklist") = Sub(database, "blacklist")

\* a value is in the result under the key, unless it is an empty mapping under a key
\* that is not prune-exempt: then the key is pruned
HeldUnlessPruned(r, key, value) ==
    IF IsEmptyDict(value) /\ key \notin DB_BUILDER_PRUNE_EXCEPTIONS
    THEN key \notin Keys(r)
    ELSE key \in Keys(r) /\ Sub(r, key) = value

\* C20: at every visited level, for a key that is not exception-managed: when both
\* trees hold a mapping under it, the result holds their merge (the key is a visited
\* level, judged in its turn; it is gone only when the merge is empty and pruned);
\* otherwise, when the fresh tree holds it, the result holds the fresh value; a key of
\* the existing tree alone keeps its value; each subject to the pruning of empty
\* mappings.  The result holds no other key.
C20_OrdinaryKeysMerged ==
    \A i \in DOMAIN merge_results : \A level \in VisitedLevels(merge_results[i].existing) :
        LET a == AtLevel(merge_results[i].existing, level)
            b == AtLevel(database, level)
            r == AtLevel(merge_results[i].merged, level)
        IN  /\ Keys(r) \subseteq Keys(a) \cup Keys(b)
            /\ \A key \in (Keys(a) \cup Keys(b)) \ DB_BUILDER_RECURSE_EXCEPTIONS :
                 IF key \in Keys(a) \cap Keys(b)
                    /\ IsDict(Sub(a, key)) /\ IsDict(Sub(b, key))
                 THEN IF key \in Keys(r)
                      THEN IsDict(Sub(r, key))
                           /\ (IsEmptyDict(Sub(r, key))
                                  => key \in DB_BUILDER_PRUNE_EXCEPTIONS)
                      ELSE key \notin DB_BUILDER_PRUNE_EXCEPTIONS
                 ELSE IF key \in Keys(b)
                 THEN HeldUnlessPruned(r, key, Sub(b, key))
                 ELSE HeldUnlessPruned(r, key, Sub(a, key))

\* C20 witness: entry "123" is a mapping on both sides, the existing one with
\* "steamName" and the fresh one with "database"; the merged entry holds both, each
\* with the value of its side
C20_Witness ==
    /\ Len(merge_results) >= 1
    /\ <<"123">> \in VisitedLevels(merge_results[1].existing)
    /\ Keys(Sub(merge_results[1].existing, "123")) = {"steamName"}
    /\ Keys(Sub(database, "123")) = {"database"}
    /\ Sub(Sub(merge_results[1].merged, "123"), "steamName") = Scalar("old")
    /\ Sub(Sub(merge_results[1].merged, "123"), "database") = Scalar("new")

\* the keys, at any depth, under which a tree holds an empty mapping
EmptyMappingKeys(tree) ==
    {p[Len(p)] : p \in {q \in DOMAIN tree :
                          /\ q # <<>>
                          /\ tree[q] = "dict"
                          /\ ~\E r \in DOMAIN tree :
                                  Len(r) > Len(q) /\ SubSeq(r, 1, Len(q)) = q}}

\* C21: after recursively_update_dict, no key of the merged tree, at any depth, holds
\* an empty mapping, unless the key is prune-exempt
C21_NoEmptyMappingLeft ==
    \A i \in DOMAIN merge_results :
        EmptyMappingKeys(merge_results[i].merged) \subseteq DB_BUILDER_PRUNE_EXCEPTIONS

----------------------------------------------------------------------------
\* refresh_cache and the single-item operations of the update engine.
\*
\* The thread that owns the store runs one operation at a time; `pc` is its position.
\* The ModParser tasks it starts run in the threads of parser_threadpool, each at its
\* own pace, until waitForDone() returns.

MaxRefreshes == 2   \* calls of refresh_cache
MaxCreations == 1   \* creation events

\* uuid4(): a uuid nothing holds yet; the uuids of the initial store are 1..MaxMods
Uuid4(count) == MaxMods + count + 1

\* batch_by_data_source: mod directory -> the uuid mod_metadata_dir_mapper maps it to,
\* or a new uuid4.  `count` is the number of uuids handed out before the call.
RECURSIVE BatchLoop(_, _, _)
BatchLoop(mod_directories, mapper, count) ==
    IF mod_directories = <<>> THEN [batch |-> <<>>, count |-> count]
    ELSE LET path == Head(mod_directories)
             known == path \in DOMAIN mapper
             rest == BatchLoop(Tail(mod_directories), mapper,
                               IF known THEN count ELSE count + 1)
         IN  [batch |-> [p \in {path} \cup DOMAIN rest.batch |->
                            IF p = path
                            THEN (IF known THEN mapper[path] ELSE Uuid4(count))
                            ELSE rest.batch[p]],
              count |-> rest.count]

batch_by_data_source(mod_directories, mapper, count) ==
    BatchLoop(SetToSeq(mod_directories), mapper, count)

\* the data source is purged whatever the batch holds
purge_by_data_source_all(all_mods, index, data_source, batch) ==
    LET uuids_to_remove ==
            {u \in DOMAIN all_mods : all_mods[u].data_source = data_source}
    IN  [meta |-> [u \in DOMAIN all_mods \ uuids_to_remove |-> all_mods[u]],
         index |-> [p \in DOMAIN index |-> index[p] \ uuids_to_remove],
         purged |-> uuids_to_remove]

\* purge_by_data_source(data_source, batch): the records of the data source whose uuid
\* is not in the batch (all of them when the batch is empty) are popped, and each uuid
\* leaves the group of its packageid, when the index has a non-empty group for it
purge_by_data_source(all_mods, index, data_source, batch) ==
    LET uuids_to_remove ==
            {u \in DOMAIN all_mods :
                /\ all_mods[u].data_source = data_source
                /\ (batch = {} \/ u \notin batch)}
    IN  [meta |-> [u \in DOMAIN all_mods \ uuids_to_remove |-> all_mods[u]],
         index |-> [p \in DOMAIN index |->
                      index[p] \ {u \in uuids_to_remove : all_mods[u].packageid = p}],
         purged |-> uuids_to_remove]

\* process_batch(batch, data_source): one ModParser per directory of the batch, started
\* in the pool (process_update with batch=True: no wait, no compile, no signal)
process_batch(batch, data_source) ==
    {[mod_directory |-> d, data_source |-> data_source, uuid |-> batch[d]] :
        d \in DOMAIN batch}

\* the part of __refresh_internal_metadata for one data source: with a folder set, the
\* batch of its directories, the purge of what the batch lacks unless the refresh is
\* the initial one, and the start of the parsers; without a folder, the purge of the
\* whole data source
RefreshSource(all_mods, index, data_source, folder, mapper, count, is_initial) ==
    IF folder = Unset
    THEN LET purge == purge_by_data_source(all_mods, index, data_source, {})
         IN  [meta |-> purge.meta, index |-> purge.index, purged |-> purge.purged,
              batch |-> <<>>, count |-> count, started |-> {}]
    ELSE LET made == batch_by_data_source(folder, mapper, count)
             purge == IF is_initial
                      THEN [meta |-> all_mods, index |-> index, purged |-> {}]
                      ELSE purge_by_data_source(all_mods, index, data_source,
                                                Range(made.batch))
         IN  [meta |-> purge.meta, index |-> purge.index, purged |-> purge.purged,
              batch |-> made.batch, count |-> made.count,
              started |-> process_batch(made.batch, data_source)]

\* parser_threadpool.waitForDone() returns at once
waitForDone_returns_at_once(pool) == TRUE

\* parser_threadpool.waitForDone(): returns when no task is pending or running
waitForDone(pool) == pool = {}

\* ModParser._populate_invalid_mod_entry: the placeholder entry
InvalidEntry(task) ==
    [invalid |-> TRUE, packageid |-> <<"invalid.item">>,
     data_source |-> task.data_source, path |-> task.mod_directory, uuid |-> task.uuid]

\* the entry of the running refresh in `refreshes`, extended by what one data source
\* added to the batch and purged
Logged(log, src) ==
    [log EXCEPT ![Len(log)] =
        [@ EXCEPT !.batch = src.batch @@ @, !.purged = @ \cup src.purged]]

At(position) == [Idle EXCEPT !.at = position, !.is_initial = pc.is_initial]

StepOp(name, uuids) ==
    [op |-> name, uuids |-> uuids, error |-> FALSE, applied |-> {}, emitted |-> <<>>]

\* one data source of the running refresh done, the thread moves on to `next_at`
SourceStep(src, next_at, log) ==
    /\ internal_local_metadata' = src.meta
    /\ packageid_to_uuids' = src.index
    /\ parser_threadpool' = parser_threadpool \cup src.started
    /\ uuid4_count' = src.count
    /\ refreshes' = Logged(log, src)
    /\ pc' = [Idle EXCEPT !.at = next_at, !.is_initial = log[Len(log)].is_initial]
    /\ last_op' = StepOp("process_batch", Range(src.batch))
    /\ UNCHANGED <<configVars, listVars, mergeVars, mapperVars, parser_metadata,
                   mod_folders, creations>>

\* refresh_cache(is_initial), up to the start of the parsers of the expansions: the
\* settings, the .acf data and the external databases are read again (they are as they
\* were), Version.txt holds game_version, then the Data folder is batched.  Without a
\* game folder the expansions are purged and nothing is waited for.
refresh_cache(is_initial) ==
    /\ pc.at = "idle"
    /\ Len(refreshes) < MaxRefreshes
    /\ is_initial => refreshes = <<>>
    /\ \E src \in {RefreshSource(internal_local_metadata, packageid_to_uuids,
                       "expansion", mod_folders["expansion"], mod_metadata_dir_mapper,
                       uuid4_count, is_initial)} :
          SourceStep(src,
                     IF mod_folders["expansion"] = Unset THEN "local"
                     ELSE "expansion_wait",
                     Append(refreshes, [is_initial |-> is_initial, batch |-> <<>>,
                                        purged |-> {}, done |-> FALSE]))

\* waitForDone() after the expansions; the records of the base game and its DLCs are
\* then given their names (no record of the stores modelled here has such a packageid)
expansions_waitForDone ==
    /\ pc.at = "expansion_wait"
    /\ waitForDone(parser_threadpool)
    /\ pc' = At("local")
    /\ UNCHANGED <<storeVars, configVars, last_op, listVars, mergeVars, mapperVars,
                   parser_threadpool, parser_metadata, mod_folders, uuid4_count,
                   refreshes, creations>>

\* the local mods: batch, purge, parsers started; no wait
refresh_local ==
    /\ pc.at = "local"
    /\ \E src \in {RefreshSource(internal_local_metadata, packageid_to_uuids,
                       "local", mod_folders["local"], mod_metadata_dir_mapper,
                       uuid4_count, pc.is_initial)} :
          SourceStep(src, "workshop", refreshes)

\* the workshop mods: batch, purge, parsers started
refresh_workshop ==
    /\ pc.at = "workshop"
    /\ \E src \in {RefreshSource(internal_local_metadata, packageid_to_uuids,
                       "workshop", mod_folders["workshop"], mod_metadata_dir_mapper,
                       uuid4_count, pc.is_initial)} :
          SourceStep(src, "wait", refreshes)

\* the waitForDone() that ends the parse phase
refresh_waitForDone ==
    /\ pc.at = "wait"
    /\ waitForDone(parser_threadpool)
    /\ pc' = At("mappers")
    /\ UNCHANGED <<storeVars, configVars, last_op, listVars, mergeVars, mapperVars,
                   parser_threadpool, parser_metadata, mod_folders, uuid4_count,
                   refreshes, creations>>

\* the mappers stay as they were
refresh_mappers_skipped ==
    /\ pc.at = "mappers"
    /\ pc' = At("compile")
    /\ UNCHANGED <<storeVars, configVars, last_op, listVars, mergeVars, mapperVars,
                   parser_threadpool, parser_metadata, mod_folders, uuid4_count,
                   refreshes, creations>>

\* the two mappers are built anew from the records
refresh_mappers ==
    /\ pc.at = "mappers"
    /\ mod_metadata_file_mapper' = MapperOf(MetadataFilePathsOf(internal_local_metadata))
    /\ mod_metadata_dir_mapper' = MapperOf(PathsOf(internal_local_metadata))
    /\ pc' = At("compile")
    /\ UNCHANGED <<storeVars, configVars, last_op, listVars, mergeVars,
                   parser_threadpool, parser_metadata, mod_folders, uuid4_count,
                   refreshes, creations>>

\* the relation sets of every record are emptied before the compile
refresh_compile_clears ==
    /\ pc.at = "compile"
    /\ \E done \in {compile_metadata(
                        [u \in DOMAIN internal_local_metadata |->
                            [internal_local_metadata[u] EXCEPT
                                !.dependencies = {}, !.incompatibilities = {},
                                !.loadTheseBefore = {}, !.loadTheseAfter = {}]],
                        <<>>, packageid_to_uuids)} :
        /\ internal_local_metadata' = done.meta
        /\ last_op' = [op |-> "refresh_cache",
                       uuids |-> DOMAIN internal_local_metadata,
                       error |-> done.error, applied |-> done.applied,
                       emitted |-> <<>>]
    /\ refreshes' = [refreshes EXCEPT ![Len(refreshes)].done = TRUE]
    /\ pc' = Idle
    /\ UNCHANGED <<packageid_to_uuids, configVars, listVars, mergeVars, mapperVars,
                   parser_threadpool, parser_metadata, mod_folders, uuid4_count,
                   creations>>

\* compile_metadata over every record ends refresh_cache
refresh_compile ==
    /\ pc.at = "compile"
    /\ \E done \in {compile_metadata(internal_local_metadata, <<>>, packageid_to_uuids)} :
        /\ internal_local_metadata' = done.meta
        /\ last_op' = [op |-> "refresh_cache",
                       uuids |-> DOMAIN internal_local_metadata,
                       error |-> done.error, applied |-> done.applied,
                       emitted |-> <<>>]
    /\ refreshes' = [refreshes EXCEPT ![Len(refreshes)].done = TRUE]
    /\ pc' = Idle
    /\ UNCHANGED <<packageid_to_uuids, configVars, listVars, mergeVars, mapperVars,
                   parser_threadpool, parser_metadata, mod_folders, uuid4_count,
                   creations>>

\* ModParser.run in a thread of the pool: About.xml missing, unreadable, or read and
\* handed to _parse_scenario_data, which returns an empty dict: in each case the
\* placeholder entry goes into the parser's own `metadata`
ModParser_run(task) ==
    /\ task \in parser_threadpool
    /\ parser_threadpool' = parser_threadpool \ {task}
    /\ parser_metadata' = (task.uuid :> InvalidEntry(task)) @@ parser_metadata
    /\ UNCHANGED <<storeVars, configVars, last_op, listVars, mergeVars, mapperVars,
                   pc, mod_folders, uuid4_count, refreshes, creations>>

\* process_creation(data_source, mod_directory, uuid), up to the waitForDone() of
\* process_update(batch=False, exists=uuid in internal_local_metadata)
process_creation(data_source, mod_directory, uuid) ==
    /\ pc.at = "idle"
    /\ creations < MaxCreations
    /\ creations' = creations + 1
    /\ parser_threadpool' = parser_threadpool \cup
           {[mod_directory |-> mod_directory, data_source |-> data_source,
             uuid |-> uuid]}
    /\ pc' = [Idle EXCEPT !.at = "process_update",
                          !.exists = uuid \in DOMAIN internal_local_metadata,
                          !.uuid = uuid]
    /\ UNCHANGED <<storeVars, configVars, last_op, listVars, mergeVars, mapperVars,
                   parser_metadata, mod_folders, uuid4_count, refreshes>>

\* the compile and the update signal do not depend on `exists`
process_update_waitForDone_whatever_exists ==
    /\ pc.at = "process_update"
    /\ waitForDone(parser_threadpool)
    /\ \E done \in {compile_metadata(internal_local_metadata, <<>>,
                                      packageid_to_uuids)} :
          /\ internal_local_metadata' = done.meta
          /\ last_op' = [op |-> "process_creation", uuids |-> {pc.uuid},
                         error |-> done.error, applied |-> done.applied,
                         emitted |-> IF done.error THEN <<>>
                                     ELSE <<"mod_metadata_updated", pc.uuid,
                                            "mod_created", pc.uuid>>]
    /\ pc' = Idle
    /\ UNCHANGED <<packageid_to_uuids, configVars, listVars, mergeVars, mapperVars,
                   parser_threadpool, parser_metadata, mod_folders, uuid4_count,
                   refreshes, creations>>

\* the rest of process_update and process_creation: once the pool is done, an existing
\* record is compiled and mod_metadata_updated_signal emitted, then mod_created_signal;
\* a compile that raises ends the call before either signal
process_update_waitForDone ==
    /\ pc.at = "process_update"
    /\ waitForDone(parser_threadpool)
    /\ IF pc.exists
       THEN \E done \in {compile_metadata(internal_local_metadata, <<pc.uuid>>,
                                          packageid_to_uuids)} :
              /\ internal_local_metadata' = done.meta
              /\ last_op' = [op |-> "process_creation", uuids |-> {pc.uuid},
                             error |-> done.error, applied |-> done.applied,
                             emitted |-> IF done.error THEN <<>>
                                         ELSE <<"mod_metadata_updated", pc.uuid,
                                                "mod_created", pc.uuid>>]
       ELSE /\ UNCHANGED internal_local_metadata
            /\ last_op' = [StepOp("process_creation", {pc.uuid}) EXCEPT
                              !.emitted = <<"mod_created", pc.uuid>>]
    /\ pc' = Idle
    /\ UNCHANGED <<packageid_to_uuids, configVars, listVars, mergeVars, mapperVars,
                   parser_threadpool, parser_metadata, mod_folders, uuid4_count,
                   refreshes, creations>>

\* a deletion event between two operations of the owning thread
deletion_event(uuid) == pc.at = "idle" /\ process_deletion(uuid)

----------------------------------------------------------------------------
\* SpecRefresh: a store of up to MaxMods records, each for its own directory, with
\* its index and its mappers as a refresh leaves them; mod folders that hold any of
\* the directories or are not configured; then up to MaxRefreshes calls of
\* refresh_cache, with creation and deletion events between them.

ModDirectories == {<<"expansion", 1>>, <<"local", 1>>, <<"workshop", 1>>}

\* a mod folder is not configured, or holds the directories of its data source
FolderContents(data_source) ==
    {Unset, {d \in ModDirectories : d[1] = data_source}}

\* the packageid of the mod in a directory: the expansion and the local mod share one
PackageIdIn(directory) == IF directory[1] = "workshop" THEN <<"b">> ELSE <<"a">>

\* the declarations of the mod in a directory: the local mod loads after "B"
DescriptorIn(directory) ==
    IF directory[1] = "local"
    THEN {[field |-> "loadafter", ver |-> NoVersion, target |-> <<"B">>]}
    ELSE {}

InitRefresh ==
    /\ \E n \in 0..MaxMods :
         \E dirs \in {f \in [1..n -> ModDirectories] :
                         \A u, v \in 1..n : f[u] = f[v] => u = v} :
             internal_local_metadata =
                 [u \in 1..n |->
                     NewMod(PackageIdIn(dirs[u]), dirs[u][1], dirs[u], <<>>,
                            DescriptorIn(dirs[u]))]
    /\ packageid_to_uuids = IndexOf(internal_local_metadata)
    /\ game_version \in {<<>>, Game_1_4_3600}
    /\ dependency_for_sorting = FALSE
    /\ external_steam_metadata = NoEntries
    /\ external_community_rules = NoEntries
    /\ external_user_rules = NoEntries
    /\ last_op = NoOp
    /\ mod_list = <<>>
    /\ list_results = <<>>
    /\ db_to_update = NoTree
    /\ database = NoTree
    /\ merge_results = <<>>
    /\ mod_metadata_dir_mapper = MapperOf(PathsOf(internal_local_metadata))
    /\ mod_metadata_file_mapper = MapperOf(MetadataFilePathsOf(internal_local_metadata))
    /\ parser_threadpool = {}
    /\ parser_metadata = <<>>
    /\ pc = Idle
    /\ mod_folders \in [DataSources -> UNION {FolderContents(s) : s \in DataSources}]
    /\ \A s \in DataSources : mod_folders[s] \in FolderContents(s)
    /\ uuid4_count = 0
    /\ refreshes = <<>>
    /\ creations = 0
    /\ NoBuild

NextRefresh ==
    \/ \E is_initial \in BOOLEAN : refresh_cache(is_initial)
    \/ expansions_waitForDone
    \/ refresh_local
    \/ refresh_workshop
    \/ refresh_waitForDone
    \/ refresh_mappers
    \/ refresh_compile
    \/ \E task \in parser_threadpool : ModParser_run(task)
    \/ \E d \in ModDirectories, uuid \in Uuids : process_creation(d[1], d, uuid)
    \/ process_update_waitForDone
    \/ \E uuid \in Uuids : deletion_event(uuid)

SpecRefresh == InitRefresh /\ [][NextRefresh]_vars

----------------------------------------------------------------------------
\* Properties of the update engine (checked under SpecRefresh)

\* the step of refresh_cache that deals with one data source
SourceStepOf(data_source) ==
    CASE data_source = "expansion" ->
             pc.at = "idle" /\ pc'.at \in {"expansion_wait", "local"}
      [] data_source = "local" -> pc.at = "local" /\ pc'.at = "workshop"
      [] data_source = "workshop" -> pc.at = "workshop" /\ pc'.at = "wait"

\* the last refresh_cache call, once it has returned
LastRefresh == refreshes[Len(refreshes)]
Refreshed == refreshes # <<>> /\ LastRefresh.done /\ pc.at = "idle"

\* a step that purges `data_source` with the uuids of its batch as the keep set does
\* what C22 says of the record table and the packageid index
PurgedAsClaimed(data_source) ==
    LET keep == last_op'.uuids
        gone == {u \in DOMAIN internal_local_metadata :
                    /\ internal_local_metadata[u].data_source = data_source
                    /\ u \notin keep}
    IN  /\ DOMAIN internal_local_metadata' = DOMAIN internal_local_metadata \ gone
        /\ \A u \in DOMAIN internal_local_metadata' :
               internal_local_metadata'[u] = internal_local_metadata[u]
        /\ DOMAIN packageid_to_uuids' = DOMAIN packageid_to_uuids
        /\ \A p \in DOMAIN packageid_to_uuids :
               packageid_to_uuids'[p] = packageid_to_uuids[p] \ gone

BatchPairs == UNION {{<<d, refreshes[i].batch[d]>> : d \in DOMAIN refreshes[i].batch} :
                        i \in DOMAIN refreshes}

\* C23: over the refreshes, a directory that two consecutive scans hold has the same
\* uuid in both batches; a uuid given to a directory belongs to no record of another
\* directory; and no two directories are ever given the same uuid
C23_StableUniqueIds ==
    /\ \A i \in DOMAIN refreshes : \A d \in DOMAIN refreshes[i].batch :
           (i > 1 /\ d \in DOMAIN refreshes[i - 1].batch)
               => refreshes[i].batch[d] = refreshes[i - 1].batch[d]
    /\ \A pair \in BatchPairs : \A u \in DOMAIN internal_local_metadata :
           u = pair[2] => internal_local_metadata[u].path = pair[1]
    /\ \A p, q \in BatchPairs : p[2] = q[2] => p[1] = q[1]

\* the uuids of the records
StoredUuids == DOMAIN internal_local_metadata

\* C24: once refresh_cache has returned, the packageid index maps each packageid to
\* exactly the uuids of the records that hold it, the directory mapper and the
\* About.xml mapper hold exactly one entry per record, that of its path, and no index
\* names a uuid without a record
C24_IndicesAgree ==
    (Refreshed /\ last_op.op = "refresh_cache") =>
        /\ \A p \in DOMAIN packageid_to_uuids :
               packageid_to_uuids[p] =
                   {u \in StoredUuids : internal_local_metadata[u].packageid = p}
        /\ \A u \in StoredUuids :
               internal_local_metadata[u].packageid \in DOMAIN packageid_to_uuids
        /\ Range(mod_metadata_dir_mapper) = StoredUuids
        /\ Range(mod_metadata_file_mapper) = StoredUuids
        /\ \A u \in StoredUuids :
               /\ mod_metadata_dir_mapper[internal_local_metadata[u].path] = u
               /\ mod_metadata_file_mapper[
                      MetadataFilePath(internal_local_metadata[u])] = u
        /\ Cardinality(DOMAIN mod_metadata_dir_mapper) = Cardinality(StoredUuids)
        /\ Cardinality(DOMAIN mod_metadata_file_mapper) = Cardinality(StoredUuids)

\* C24 witness: a refresh has just returned that purged one record and left another
C24_Witness ==
    /\ Refreshed
    /\ last_op.op = "refresh_cache"
    /\ LastRefresh.purged # {}
    /\ StoredUuids # {}

\* the uuids the indices name: the packageid groups and the two mappers
IndexedUuids ==
    UNION {packageid_to_uuids[p] : p \in DOMAIN packageid_to_uuids}
        \cup Range(mod_metadata_dir_mapper) \cup Range(mod_metadata_file_mapper)

\* C25: after process_deletion of a uuid that had a record (the call that emits), the
\* record is gone, no packageid group and neither mapper names the uuid, and
\* mod_deleted_signal was emitted for it
C25_DeletionRemovesEverywhere ==
    \A uuid \in Uuids :
        (last_op.op = "process_deletion" /\ last_op.uuids = {uuid}
            /\ last_op.emitted # <<>>)
        => /\ uuid \notin StoredUuids
           /\ uuid \notin IndexedUuids
           /\ last_op.emitted = <<"mod_deleted", uuid>>

\* C26: process_deletion of a uuid without a record raises nothing, leaves the record
\* table, the packageid index and both mappers as they are and emits no signal
C26_DeletionOfAbsentIsNoOp ==
    [][\A uuid \in Uuids :
          (pc.at = "idle" /\ uuid \notin StoredUuids
              /\ last_op'.op = "process_deletion" /\ last_op'.uuids = {uuid}
              /\ pc'.at = "idle")
          => /\ UNCHANGED <<storeVars, mapperVars>>
             /\ ~last_op'.error
             /\ last_op'.emitted = <<>>]_vars

\* C26 witness: a refresh has purged the record of uuid 1, and the deletion event for
\* uuid 1 that came after it changed nothing
C26_Witness ==
    /\ Refreshed
    /\ 1 \in LastRefresh.purged
    /\ last_op = [StepOp("process_deletion", {1}) EXCEPT !.emitted = <<>>]

\* how often a signal is in the list of the (signal, uuid) pairs an operation emitted
Emissions(emitted, signal, uuid) ==
    Cardinality({i \in DOMAIN emitted :
                    i % 2 = 1 /\ emitted[i] = signal /\ emitted[i + 1] = uuid})

\* the step in which a single-item process_update gets past its waitForDone()
SingleUpdateReturns == pc.at = "process_update" /\ pc'.at = "idle"

\* C27: a single-item process_update goes on only when the parser of its directory
\* has run and the pool is done; then, if the uuid had a record, the store is what
\* compile_metadata([uuid]) makes of it and, the compile having returned, exactly one
\* mod_metadata_updated is emitted for the uuid; if it had none, nothing is compiled
\* and no mod_metadata_updated is emitted.  A process_update of a batch compiles
\* nothing and emits nothing.
C27_SingleUpdateCompilesAndNotifies ==
    /\ [][SingleUpdateReturns =>
            /\ parser_threadpool = {}
            /\ pc.uuid \in DOMAIN parser_metadata
            /\ IF pc.uuid \in StoredUuids
               THEN LET done == compile_metadata(internal_local_metadata, <<pc.uuid>>,
                                                 packageid_to_uuids)
                    IN  /\ internal_local_metadata' = done.meta
                        /\ last_op'.error = done.error
                        /\ ~done.error =>
                              Emissions(last_op'.emitted, "mod_metadata_updated",
                                        pc.uuid) = 1
               ELSE /\ UNCHANGED internal_local_metadata
                    /\ Emissions(last_op'.emitted, "mod_metadata_updated", pc.uuid) = 0
         ]_vars
    /\ [][(\E s \in DataSources : SourceStepOf(s)) =>
            /\ last_op'.emitted = <<>>
            /\ \A u \in DOMAIN internal_local_metadata' :
                   internal_local_metadata'[u] = internal_local_metadata[u]]_vars

\* C27 witness: the creation event for the directory of the local mod, which had a
\* record, has been handled: the record now holds its load rule and the update signal
\* was emitted once
C27_Witness ==
    /\ last_op.op = "process_creation"
    /\ \E u \in StoredUuids :
          /\ last_op.uuids = {u}
          /\ internal_local_metadata[u].loadTheseBefore # {}
          /\ Emissions(last_op.emitted, "mod_metadata_updated", u) = 1

\* metadata.get("invalid"): the record is a placeholder for a directory that did not parse
Invalid(mod) == "invalid" \in DOMAIN mod /\ mod.invalid

\* C28: once a refresh has returned, the parser of every directory of its batch has
\* run, whatever the others met, and for every directory whose parse ended with the
\* placeholder entry the store holds a record under the uuid of the directory, marked
\* invalid
C28_InvalidPlaceholderStored ==
    Refreshed =>
        \A d \in DOMAIN LastRefresh.batch :
            LET uuid == LastRefresh.batch[d]
            IN  /\ uuid \in DOMAIN parser_metadata
                /\ Invalid(parser_metadata[uuid]) =>
                      /\ uuid \in StoredUuids
                      /\ Invalid(internal_local_metadata[uuid])
                      /\ internal_local_metadata[uuid].path = d

\* C29: while refresh_cache rebuilds the mappers or compiles, no parser is pending or
\* running, and the parser of every directory of the batch, of all three data
\* sources, has run
C29_BarrierBeforeRebuild ==
    pc.at \in {"mappers", "compile"} =>
        /\ parser_threadpool = {}
        /\ \A d \in DOMAIN LastRefresh.batch :
               LastRefresh.batch[d] \in DOMAIN parser_metadata

\* C29 witness: the mappers are about to be rebuilt after a batch with a directory of
\* each of the three data sources
C29_Witness ==
    /\ pc.at = "mappers"
    /\ DOMAIN LastRefresh.batch = ModDirectories
    /\ parser_threadpool = {}

\* C30: while parsers started by a refresh are pending or running, no step changes the
\* record table, the packageid index or a mapper
C30_SingleWriter ==
    [][(parser_threadpool # {} /\ pc.at \notin {"idle", "process_update"})
          => UNCHANGED <<storeVars, mapperVars>>]_vars

----------------------------------------------------------------------------
\* Repeated compile passes (checked under SpecCompile)

RelationKeys == {"dependencies", "incompatibilities", "loadTheseBefore", "loadTheseAfter"}

\* the four relation sets of a record
Relations(mod) == [k \in RelationKeys |-> mod[k]]

\* the step repeats the compile pass the last operation was: the same call over the
\* same uuids, nothing in between
RepeatedPass ==
    /\ last_op.op \in {"compile_metadata", "process_update"}
    /\ last_op'.op = last_op.op
    /\ last_op'.uuids = last_op.uuids

\* C31: compile_metadata is idempotent for unchanged inputs: when a pass is run a
\* second time in a row over the same uuids, every record's dependencies,
\* incompatibilities, loadTheseBefore and loadTheseAfter are what they were after the
\* first run.
C31_CompileIdempotent ==
    [][RepeatedPass =>
          \A u \in DOMAIN internal_local_metadata :
              Relations(internal_local_metadata'[u]) = Relations(internal_local_metadata[u])
      ]_vars

\* a pass that applied a load rule and an incompatibility has run (and can run again):
\* some record holds an explicit tuple, some an implied one
C31_Witness ==
    /\ Compiled
    /\ last_op.applied # {}
    /\ \E u \in DOMAIN internal_local_metadata :
         \E t \in internal_local_metadata[u].loadTheseBefore
                    \cup internal_local_metadata[u].loadTheseAfter : t[2]
    /\ \E u \in DOMAIN internal_local_metadata :
         \E t \in internal_local_metadata[u].loadTheseBefore
                    \cup internal_local_metadata[u].loadTheseAfter : ~t[2]

----------------------------------------------------------------------------
\* Incompatibilities stay with the declaring record (checked under SpecCompile)

\* the record declares no incompatibility at all
DeclaresNoIncompatibility(mod) ==
    \A d \in mod.raw : d.field \notin {"incompatiblewith", "incompatiblewithbyversion"}

\* C33: an incompatibility is recorded on the declaring record only: after a compile
\* pass over A, where A declares B's packageId incompatible, B is installed and B
\* declares no incompatibility, B's packageId is in A.incompatibilities and A's
\* packageId is in the incompatibilities of no record that holds B's packageId.
C33_IncompatibilityOneSided ==
    Compiled =>
        \A A \in Covered, B \in DOMAIN internal_local_metadata :
            \A d \in IncompatibilityDeclared(internal_local_metadata[A]) :
                (/\ Lower(d.target) = internal_local_metadata[B].packageid
                 /\ DeclaresNoIncompatibility(internal_local_metadata[B]))
                => /\ internal_local_metadata[B].packageid
                          \in internal_local_metadata[A].incompatibilities
                   /\ internal_local_metadata[A].packageid
                          \notin internal_local_metadata[B].incompatibilities

\* a pass over A has recorded the packageId of another record B, which declares none
C33_Witness ==
    /\ Compiled
    /\ \E A \in Covered, B \in DOMAIN internal_local_metadata :
         /\ A # B
         /\ internal_local_metadata[A].packageid # internal_local_metadata[B].packageid
         /\ DeclaresNoIncompatibility(internal_local_metadata[B])
         /\ \E d \in IncompatibilityDeclared(internal_local_metadata[A]) :
                Lower(d.target) = internal_local_metadata[B].packageid
         /\ internal_local_metadata[B].packageid
                \in internal_local_metadata[A].incompatibilities

----------------------------------------------------------------------------
\* SpecVersion: stores of up to MaxMods records with up to MaxRules version-scoped
\* declarations keyed "v1.4" or "v1.44", game version "1.4.3600" or "1.44.1"; then
\* any sequence of compile passes, single updates and deletions.

V144 == <<"v", "1", ".", "4", "4">>
Game_1_44_1 == <<"1", ".", "4", "4", ".", "1">>

ScopedDeclarations == [field : VersionedFields, ver : {V14, V144}, target : Targets]

InitVersion ==
    /\ \E n \in 1..MaxMods :
         \E pids \in [1..n -> PackageIds] :
           \E R \in SubsetsUpTo((1..n) \X ScopedDeclarations, MaxRules) :
             internal_local_metadata =
                 [u \in 1..n |->
                     NewMod(pids[u], "local", <<"mod", u>>, <<>>,
                            {r[2] : r \in {q \in R : q[1] = u}})]
    /\ packageid_to_uuids = IndexOf(internal_local_metadata)
    /\ game_version \in {Game_1_4_3600, Game_1_44_1}
    /\ dependency_for_sorting \in BOOLEAN
    /\ external_steam_metadata = NoEntries
    /\ external_community_rules = NoEntries
    /\ external_user_rules = NoEntries
    /\ last_op = NoOp
    /\ mod_list = <<>>
    /\ list_results = <<>>
    /\ db_to_update = NoTree
    /\ database = NoTree
    /\ merge_results = <<>>
    /\ NoRefresh
    /\ NoBuild

SpecVersion == InitVersion /\ [][NextCompile]_vars

\* the version-scoped blocks of a record the last pass handed to a process_* function
AppliedBlocks(u) == {b \in last_op.applied : b[1] = u}

\* C34 as stated: with a game version whose major.minor is "1.44", a version-scoped
\* rule keyed "v1.4" is matched and applied by compile_metadata.
C34_ShortKeyMatchesLongVersion ==
    (Compiled /\ game_version = Game_1_44_1) =>
        \A u \in Covered : \A d \in internal_local_metadata[u].raw :
            d.ver = V14 => <<u, d.field, d.ver>> \in AppliedBlocks(u)

\* C34 amended: the pattern is built from the game version and matched at the start of
\* the key, with no anchor at the key's end: with game version "1.4.3600" the blocks
\* keyed "v1.4" and "v1.44" are both applied; with game version "1.44.1" the block
\* keyed "v1.44" is applied and the block keyed "v1.4" is not.
C34_KeyPrefixedByVersion ==
    Compiled =>
        \A u \in Covered : \A d \in internal_local_metadata[u].raw :
            <<u, d.field, d.ver>> \in AppliedBlocks(u)
                <=> d.ver \in (IF game_version = Game_1_44_1 THEN {V144} ELSE {V14, V144})

\* a pass with game version "1.4.3600" has applied a block keyed "v1.44"
C34_Witness ==
    /\ Compiled
    /\ game_version = Game_1_4_3600
    /\ \E u \in Covered : \E d \in internal_local_metadata[u].raw :
           d.ver = V144 /\ <<u, d.field, d.ver>> \in AppliedBlocks(u)

----------------------------------------------------------------------------
\* Relation sets over compile passes and batch refreshes (checked under SpecRefresh)

\* C35: over any sequence of compile passes and batch refreshes, the dependencies,
\* incompatibilities, loadTheseBefore and loadTheseAfter of a record that persists
\* never lose a tuple; a tuple stays after a later pass in which the rule it came
\* from is gone.
C35_RelationsOnlyGrow ==
    [][\A u \in DOMAIN internal_local_metadata \cap DOMAIN internal_local_metadata' :
          \A k \in RelationKeys :
              internal_local_metadata[u][k] \subseteq internal_local_metadata'[u][k]
      ]_vars

\* a second refresh has compiled a store in which no record declares a load rule any
\* more, and a record still holds the implied tuple of the rule of a record that left
C35_Witness ==
    /\ Refreshed
    /\ Len(refreshes) = 2
    /\ ~last_op.error
    /\ \A u \in DOMAIN internal_local_metadata : internal_local_metadata[u].raw = {}
    /\ \E u \in DOMAIN internal_local_metadata :
           <<(<<"a">>), FALSE>> \in internal_local_metadata[u].loadTheseAfter

----------------------------------------------------------------------------
\* Load rules that name a packageId nobody holds (checked under SpecCompile)

\* the tuples a step adds to a load-order set of a record
AddedTuples(u, k) == internal_local_metadata'[u][k] \ internal_local_metadata[u][k]

\* C36: a load-order rule that names a packageId with no installed record adds
\* nothing: every tuple a step adds to a loadTheseBefore or loadTheseAfter set names a
\* packageId that is a key of the packageid index and that an installed record holds.
C36_UninstalledRuleAddsNothing ==
    [][\A u \in DOMAIN internal_local_metadata \cap DOMAIN internal_local_metadata' :
          \A k \in {"loadTheseBefore", "loadTheseAfter"} :
              \A t \in AddedTuples(u, k) :
                  /\ t[1] \in DOMAIN packageid_to_uuids
                  /\ Installed(t[1])
      ]_vars

----------------------------------------------------------------------------
\* The active list holds each id once (checked under SpecList)

\* C39: the active list get_mods_from_list returns contains no id more than once,
\* for every store and every request, requests naming a packageId several times or
\* with and without the marker included.
C39_ActiveHasNoRepeats ==
    \A i \in DOMAIN list_results :
        \A j, k \in DOMAIN list_results[i].active :
            list_results[i].active[j] = list_results[i].active[k] => j = k

----------------------------------------------------------------------------
\* The reach of a compile pass over some uuids (checked under SpecExternal)

\* C40: compile_metadata for a non-empty uuid list (a single update) changes the
\* dependencies and incompatibilities of the listed records only and adds explicit
\* tuples to the listed records only; a record outside the list gets at most implied
\* tuples that name the packageid of a listed record.
C40_PassStaysInItsSet ==
    [][last_op'.op = "process_update" =>
          \A u \in DOMAIN internal_local_metadata \ last_op'.uuids :
              /\ internal_local_metadata'[u].dependencies
                     = internal_local_metadata[u].dependencies
              /\ internal_local_metadata'[u].incompatibilities
                     = internal_local_metadata[u].incompatibilities
              /\ \A k \in {"loadTheseBefore", "loadTheseAfter"} :
                     \A t \in AddedTuples(u, k) :
                         /\ ~t[2]
                         /\ \E s \in last_op'.uuids \cap DOMAIN internal_local_metadata :
                                internal_local_metadata[s].packageid = t[1]
      ]_vars

----------------------------------------------------------------------------
\* AppIDQuery (src/util/steam/webapi/wrapper.py): the enumeration of a Workshop
\* catalogue, page by page

MaxCatalogue == 3
MaxLocalMods == 2

Pfids == {"101", "102", "103"}

\* the cursors the server hands out, by the page they stand for; "*" asks for the first
Cursors == <<"*", "c2", "c3", "c4", "c5">>
PageOf(cursor) == CHOOSE k \in DOMAIN Cursors : Cursors[k] = cursor

\* ceil(a / b)
Ceil(a, b) == (a + b - 1) \div b

\* result["response"] of IPublishedFileService.QueryFiles for a cursor: the total of the
\* catalogue, the ids of the page the cursor stands for (none past the end) and the
\* cursor of the page after it
QueryFilesResponse(cursor) ==
    LET k == PageOf(cursor)
        first == (k - 1) * workshop.numperpage + 1
        last == IF k * workshop.numperpage < Len(workshop.ids)
                THEN k * workshop.numperpage ELSE Len(workshop.ids)
    IN  [total |-> Len(workshop.ids),
         publishedfiledetails |-> SubSeq(workshop.ids, first, last),
         next_cursor |-> IF k < Len(Cursors) THEN Cursors[k + 1] ELSE cursor]

\* every request is made with the cursor "*"
IPublishedFileService_QueryFiles_first_cursor ==
    /\ appid_query.query
    /\ appid_query.pagenum <= appid_query.pages
    /\ \E result \in {QueryFilesResponse("*")} :
         \E initial \in {appid_query.total = 0 /\ result.total # 0} :
           appid_query' =
               [appid_query EXCEPT
                   !.total = IF initial THEN result.total ELSE @,
                   !.pages = IF initial
                             THEN Ceil(result.total, Len(result.publishedfiledetails))
                             ELSE @,
                   !.pagenum = (IF initial THEN 1 ELSE @) + 1,
                   !.publishedfileids = @ \o result.publishedfiledetails,
                   !.next_cursor = result.next_cursor,
                   !.cursors = Append(@, "*")]
    /\ UNCHANGED <<storeVars, configVars, last_op, listVars, db_to_update, database,
                   merge_results, builder, workshop, dynamic_query, refreshVars>>

\* One pass of `while self.query:` with pagenum <= pages: the call of
\* IPublishedFileService_QueryFiles(self.next_cursor).  The first response with a total
\* sets total and pages = ceil(total / len(page)); the ids of the page are appended,
\* pagenum goes up by one and the returned cursor becomes next_cursor.
IPublishedFileService_QueryFiles ==
    /\ appid_query.query
    /\ appid_query.pagenum <= appid_query.pages
    /\ \E result \in {QueryFilesResponse(appid_query.next_cursor)} :
         \E initial \in {appid_query.total = 0 /\ result.total # 0} :
           appid_query' =
               [appid_query EXCEPT
                   !.total = IF initial THEN result.total ELSE @,
                   !.pages = IF initial
                             THEN Ceil(result.total, Len(result.publishedfiledetails))
                             ELSE @,
                   !.pagenum = (IF initial THEN 1 ELSE @) + 1,
                   !.publishedfileids = @ \o result.publishedfiledetails,
                   !.next_cursor = result.next_cursor,
                   !.cursors = Append(@, appid_query.next_cursor)]
    /\ UNCHANGED <<storeVars, configVars, last_op, listVars, db_to_update, database,
                   merge_results, builder, workshop, dynamic_query, refreshVars>>

\* `if self.pagenum > self.pages: self.query = False; break`
AppIDQuery_break ==
    /\ appid_query.query
    /\ appid_query.pagenum > appid_query.pages
    /\ appid_query' = [appid_query EXCEPT !.query = FALSE]
    /\ UNCHANGED <<storeVars, configVars, last_op, listVars, db_to_update, database,
                   merge_results, builder, workshop, dynamic_query, refreshVars>>

\* the sequences of up to MaxCatalogue distinct ids
Catalogues ==
    {ids \in SeqsUpTo(Pfids, MaxCatalogue) :
        \A i, j \in DOMAIN ids : ids[i] = ids[j] => i = j}

\* SpecEnumerate: an AppIDQuery object as __init__ leaves it before its loop, against a
\* catalogue of up to MaxCatalogue ids served in pages of one to three ids
InitEnumerate ==
    /\ internal_local_metadata = <<>>
    /\ packageid_to_uuids = IndexOf(<<>>)
    /\ game_version = Game_1_4_3600
    /\ dependency_for_sorting = FALSE
    /\ external_steam_metadata = NoEntries
    /\ external_community_rules = NoEntries
    /\ external_user_rules = NoEntries
    /\ last_op = NoOp
    /\ mod_list = <<>>
    /\ list_results = <<>>
    /\ db_to_update = NoTree
    /\ database = NoTree
    /\ merge_results = <<>>
    /\ NoRefresh
    /\ builder = NoBuilder
    /\ \E ids \in Catalogues, numperpage \in 1..MaxCatalogue :
           workshop = [NoWorkshop EXCEPT !.ids = ids, !.numperpage = numperpage]
    /\ appid_query = [NoAppIDQuery EXCEPT !.query = TRUE]
    /\ dynamic_query = NoDynamicQuery

NextEnumerate ==
    \/ IPublishedFileService_QueryFiles
    \/ AppIDQuery_break

\* the loop of __init__ runs on in its thread until it breaks
SpecEnumerate == InitEnumerate /\ [][NextEnumerate]_vars /\ WF_vars(NextEnumerate)

\* the response to the request made with this cursor holds the last ids of the
\* catalogue: the server has no further page
NoFurtherPages(cursor) == PageOf(cursor) * workshop.numperpage >= Len(workshop.ids)

\* C37: the enumeration requests each page with the cursor the previous page returned
\* (the first with "*"), goes on until the server has no further page and then
\* terminates; the collected list then holds every id of every page, in page order.
C37_EnumerationComplete ==
    /\ <>(~appid_query.query)
    /\ [](\A i \in DOMAIN appid_query.cursors :
             appid_query.cursors[i] =
                 IF i = 1 THEN "*"
                 ELSE QueryFilesResponse(appid_query.cursors[i - 1]).next_cursor)
    /\ [](~appid_query.query =>
             /\ appid_query.cursors # <<>>
             /\ \A i \in DOMAIN appid_query.cursors :
                    NoFurtherPages(appid_query.cursors[i]) <=> i = Len(appid_query.cursors)
             /\ appid_query.publishedfileids = workshop.ids)

\* an enumeration of three pages has ended
C37_Witness ==
    /\ ~appid_query.query
    /\ Len(appid_query.cursors) = 3
    /\ Len(appid_query.publishedfileids) = 3

----------------------------------------------------------------------------
\* DynamicQuery (src/util/steam/webapi/wrapper.py): the details of a set of published
\* files and of the children they list

\* an entry of query["database"]: whether it holds a local "name", its "steamName"
\* ("" when it has none), its flags and the children recorded as its dependencies
Entry(name, steamName, unpublished, missing) ==
    [name |-> name, steamName |-> steamName, unpublished |-> unpublished,
     missing |-> missing, dependencies |-> {}]

\* one element of response["response"]["publishedfiledetails"]: the API returns a
\* record for every id asked; result is 1 for a published file, which lists its children
Details(publishedfileid) ==
    [publishedfileid |-> publishedfileid,
     result |-> IF publishedfileid \in workshop.published THEN 1 ELSE 9,
     children |-> SetToSeq(workshop.children[publishedfileid])]

\* `for children in metadata["children"]`: a child with an entry becomes a dependency
\* (child_name is read from the entry; with neither "name" nor "steamName" there it
\* keeps the value of an earlier child, and the read raises UnboundLocalError when
\* there was none); a child without an entry is noted in missing_children
RECURSIVE ChildrenLoop(_, _, _)
ChildrenLoop(st, publishedfileid, children) ==
    IF children = <<>> \/ st.error THEN st
    ELSE LET child_pfid == Head(children)
             named == \/ st.database[child_pfid].name
                      \/ st.database[child_pfid].steamName # ""
             next ==
                 IF child_pfid \in DOMAIN st.database
                 THEN IF ~named /\ ~st.child_name
                      THEN [st EXCEPT !.error = TRUE]
                      ELSE [st EXCEPT
                               !.child_name = TRUE,
                               !.database[publishedfileid].dependencies =
                                   @ \cup {child_pfid}]
                 ELSE IF \E i \in DOMAIN st.missing_children :
                             st.missing_children[i] = child_pfid
                 THEN st
                 ELSE [st EXCEPT !.missing_children = Append(@, child_pfid)]
         IN  ChildrenLoop(next, publishedfileid, Tail(children))

\* the body of `for metadata in response[...]` with override False: an id without an
\* entry gets a skeleton entry (flagged unpublished when result != 1); an entry flagged
\* unpublished is skipped; any other entry gets the title as steamName, an empty
\* dependencies mapping and its children looked up
ParseDetails(st, metadata) ==
    LET publishedfileid == metadata.publishedfileid
    IN  IF publishedfileid \notin DOMAIN st.database
        THEN [st EXCEPT !.database =
                 (publishedfileid :>
                     Entry(FALSE,
                           IF metadata.result # 1
                           THEN "Missing mod: deleted/private/removed/unposted"
                           ELSE "Steam metadata unavailable",
                           metadata.result # 1, TRUE)) @@ @]
        ELSE IF st.database[publishedfileid].unpublished THEN st
        ELSE ChildrenLoop(
                 [st EXCEPT !.database[publishedfileid].steamName = "title",
                            !.database[publishedfileid].dependencies = {}],
                 publishedfileid, metadata.children)

RECURSIVE DetailsLoop(_, _)
DetailsLoop(st, publishedfileids) ==
    IF publishedfileids = <<>> \/ st.error THEN st
    ELSE DetailsLoop(ParseDetails(st, Details(Head(publishedfileids))),
             Tail(publishedfileids))

\* IPublishedFileService_GetDetails(json_to_update, False, publishedfileids): the
\* updated database and the missing children (one batch: the lists stay under 215)
IPublishedFileService_GetDetails(json_to_update, publishedfileids) ==
    DetailsLoop([database |-> json_to_update, missing_children |-> <<>>,
                 child_name |-> FALSE, error |-> FALSE], publishedfileids)

\* cache_parsable_db_data(mods) up to its loop: an entry and a list element for every
\* mod with a publishedfileid
cache_parsable_db_data(mods) ==
    /\ dynamic_query.at = "idle"
    /\ dynamic_query' =
           [at |-> "querying",
            database |-> [p \in {mods[i].publishedfileid : i \in DOMAIN mods} |->
                             Entry(\E i \in DOMAIN mods :
                                       mods[i].publishedfileid = p /\ mods[i].name,
                                   "", FALSE, FALSE)],
            publishedfileids |-> [i \in DOMAIN mods |-> mods[i].publishedfileid],
            missing_children |-> <<>>]
    /\ UNCHANGED <<storeVars, configVars, last_op, listVars, db_to_update, database,
                   merge_results, builder, workshop, appid_query, refreshVars>>

\* the loop ends after its first query, missing children or not
cache_parsable_db_data_query_single_pass ==
    /\ dynamic_query.at = "querying"
    /\ \E done \in {IPublishedFileService_GetDetails(dynamic_query.database,
                        dynamic_query.publishedfileids)} :
         dynamic_query' =
             [dynamic_query EXCEPT
                 !.at = IF done.error THEN "raised" ELSE "done",
                 !.database = done.database,
                 !.missing_children = <<>>]
    /\ UNCHANGED <<storeVars, configVars, last_op, listVars, db_to_update, database,
                   merge_results, builder, workshop, appid_query, refreshVars>>

\* `while querying:` the query over publishedfileids; with missing children the list
\* is extended by them and the second query follows, without any the loop ends
cache_parsable_db_data_query ==
    /\ dynamic_query.at = "querying"
    /\ \E done \in {IPublishedFileService_GetDetails(dynamic_query.database,
                        dynamic_query.publishedfileids)} :
         dynamic_query' =
             [dynamic_query EXCEPT
                 !.at = IF done.error THEN "raised"
                        ELSE IF Len(done.missing_children) > 0 THEN "missing"
                        ELSE "done",
                 !.database = done.database,
                 !.publishedfileids = IF done.error THEN @
                                      ELSE @ \o done.missing_children,
                 !.missing_children = IF done.error THEN <<>>
                                      ELSE done.missing_children]
    /\ UNCHANGED <<storeVars, configVars, last_op, listVars, db_to_update, database,
                   merge_results, builder, workshop, appid_query, refreshVars>>

\* the query over the missing children, then back to the top of the loop
cache_parsable_db_data_missing ==
    /\ dynamic_query.at = "missing"
    /\ \E done \in {IPublishedFileService_GetDetails(dynamic_query.database,
                        dynamic_query.missing_children)} :
         dynamic_query' =
             [dynamic_query EXCEPT
                 !.at = IF done.error THEN "raised" ELSE "querying",
                 !.database = done.database,
                 !.missing_children = done.missing_children]
    /\ UNCHANGED <<storeVars, configVars, last_op, listVars, db_to_update, database,
                   merge_results, builder, workshop, appid_query, refreshVars>>

\* the local mods with a publishedfileid, in the order of the dict, each with or
\* without a name
LocalMods ==
    {mods \in SeqsUpTo([publishedfileid : Pfids, name : BOOLEAN], MaxLocalMods) :
        \A i, j \in DOMAIN mods :
            mods[i].publishedfileid = mods[j].publishedfileid => i = j}

\* the catalogues: some files are published, and each of those lists other files as
\* its children
Workshops ==
    {w \in [ids : {<<>>}, numperpage : {1}, published : SUBSET Pfids,
            children : [Pfids -> SUBSET Pfids]] :
        \A p \in Pfids : /\ p \notin w.children[p]
                         /\ p \notin w.published => w.children[p] = {}}

\* SpecDetails: a DynamicQuery object, a catalogue over Pfids and one call of
\* cache_parsable_db_data for up to MaxLocalMods local mods
InitDetails ==
    /\ internal_local_metadata = <<>>
    /\ packageid_to_uuids = IndexOf(<<>>)
    /\ game_version = Game_1_4_3600
    /\ dependency_for_sorting = FALSE
    /\ external_steam_metadata = NoEntries
    /\ external_community_rules = NoEntries
    /\ external_user_rules = NoEntries
    /\ last_op = NoOp
    /\ mod_list = <<>>
    /\ list_results = <<>>
    /\ db_to_update = NoTree
    /\ database = NoTree
    /\ merge_results = <<>>
    /\ NoRefresh
    /\ builder = NoBuilder
    /\ workshop \in Workshops
    /\ appid_query = NoAppIDQuery
    /\ dynamic_query = NoDynamicQuery

NextDetails ==
    \/ \E mods \in LocalMods : cache_parsable_db_data(mods)
    \/ cache_parsable_db_data_query
    \/ cache_parsable_db_data_missing

\* the call runs on in its thread until it returns or raises
SpecDetails == InitDetails /\ [][NextDetails]_vars /\ WF_vars(NextDetails)

----------------------------------------------------------------------------
\* SteamDatabaseBuilder.run (metadata.py): the build of the Steam database and its
\* way into the database file.  builder.apikey is the length of the key, builder.exists
\* whether the file at output_database_path exists, builder.fetch how the remote fetch
\* of the build went; merge_results logs every write of the file.

At_builder(position) == [builder EXCEPT !.at = position]

\* the key is not checked
SteamDatabaseBuilder_run_any_key ==
    /\ builder.at = "idle"
    /\ builder' =
           CASE builder.mode \in {"no_local", "pfids_by_appid"} ->
                    At_builder("pfids_by_appid")
             [] builder.mode = "all_mods" ->
                    IF builder.mods = {} THEN At_builder("finished")
                    ELSE At_builder("create_steam_db")
             [] OTHER -> At_builder("finished")
    /\ UNCHANGED <<storeVars, configVars, last_op, listVars, db_to_update, database,
                   merge_results, workshop, appid_query, dynamic_query, refreshVars>>

\* run() up to its first remote call: a key that is not 32 characters long, an unknown
\* mode, or mode "all_mods" without mods end it there; "no_local" and "pfids_by_appid"
\* go on to the enumeration, "all_mods" with mods to the fetch of the details
SteamDatabaseBuilder_run ==
    /\ builder.at = "idle"
    /\ builder' =
           CASE builder.apikey # 32 -> At_builder("finished")
             [] builder.mode \in {"no_local", "pfids_by_appid"} ->
                    At_builder("pfids_by_appid")
             [] builder.mode = "all_mods" ->
                    IF builder.mods = {} THEN At_builder("finished")
                    ELSE At_builder("create_steam_db")
             [] OTHER -> At_builder("finished")
    /\ UNCHANGED <<storeVars, configVars, last_op, listVars, db_to_update, database,
                   merge_results, workshop, appid_query, dynamic_query, refreshVars>>

\* dynamic_query.pfids_by_appid(): the ids of the catalogue, or a remote failure that
\* ends run().  "no_local" stops without ids and goes on to the fetch with some;
\* "pfids_by_appid" keeps the ids and is done.
pfids_by_appid ==
    /\ builder.at = "pfids_by_appid"
    /\ \/ builder' = [builder EXCEPT !.at = "raised", !.fetch = "failed"]
       \/ builder' =
              IF builder.mode = "pfids_by_appid"
              THEN [builder EXCEPT !.at = "finished",
                                   !.publishedfileids = workshop.ids]
              ELSE IF Len(workshop.ids) = 0 THEN At_builder("finished")
              ELSE [builder EXCEPT !.at = "create_steam_db",
                                   !.publishedfileids = workshop.ids]
    /\ UNCHANGED <<storeVars, configVars, last_op, listVars, db_to_update, database,
                   merge_results, workshop, appid_query, dynamic_query, refreshVars>>

\* dynamic_query.create_steam_db(database, publishedfileids): the fetch of the details
\* completes and dynamic_query.database is ready, or it fails part-way and ends run()
create_steam_db ==
    /\ builder.at = "create_steam_db"
    /\ \/ builder' = [builder EXCEPT !.at = "raised", !.fetch = "failed"]
       \/ builder' = [builder EXCEPT !.at = "output", !.fetch = "completed"]
    /\ UNCHANGED <<storeVars, configVars, last_op, listVars, db_to_update, database,
                   merge_results, workshop, appid_query, dynamic_query, refreshVars>>

\* self._output_database(dynamic_query.database) at the end of run(): with `update`
\* set and the file present the file is read, updated with the database and written
\* back; otherwise the database is dumped to the path
run_output_database ==
    /\ builder.at = "output"
    /\ \E written \in {IF builder.update /\ builder.exists
                       THEN recursively_update_dict(db_to_update, database,
                                DB_BUILDER_PRUNE_EXCEPTIONS, {},
                                DB_BUILDER_RECURSE_EXCEPTIONS)
                       ELSE database} :
         /\ db_to_update' = written
         /\ merge_results' = Append(merge_results,
                                 [existing |-> db_to_update, merged |-> written])
    /\ builder' = [builder EXCEPT !.at = "finished", !.exists = TRUE]
    /\ UNCHANGED <<storeVars, configVars, last_op, listVars, database, workshop,
                   appid_query, dynamic_query, refreshVars>>

\* the trees with at most the "database" key and one entry under it
SmallTrees(scalar) ==
    {t \in TreesOf(scalar) :
        DOMAIN t \subseteq {<<>>, <<"database">>, <<"database", "123">>}}

\* SpecBuilder: a builder with a key of 32 characters or not, any mode, with or without
\* local mods and `update`, a database file that exists or not, a catalogue with or
\* without ids, and the database a completed fetch hands over
InitBuilder ==
    /\ internal_local_metadata = <<>>
    /\ packageid_to_uuids = IndexOf(<<>>)
    /\ game_version = Game_1_4_3600
    /\ dependency_for_sorting = FALSE
    /\ external_steam_metadata = NoEntries
    /\ external_community_rules = NoEntries
    /\ external_user_rules = NoEntries
    /\ last_op = NoOp
    /\ mod_list = <<>>
    /\ list_results = <<>>
    /\ \E apikey \in {31, 32}, update \in BOOLEAN, exists \in BOOLEAN,
          mode \in {"no_local", "all_mods", "pfids_by_appid", "unknown"},
          mods \in {{}, {"101"}} :
         /\ builder = [NoBuilder EXCEPT !.apikey = apikey, !.mode = mode,
                                        !.mods = mods, !.update = update,
                                        !.exists = exists]
         /\ db_to_update \in IF exists THEN SmallTrees("old") ELSE {NoTree}
    /\ database \in SmallTrees("new")
    /\ merge_results = <<>>
    /\ NoRefresh
    /\ workshop \in {NoWorkshop, [NoWorkshop EXCEPT !.ids = <<"101", "102">>]}
    /\ appid_query = NoAppIDQuery
    /\ dynamic_query = NoDynamicQuery

NextBuilder ==
    \/ SteamDatabaseBuilder_run
    \/ pfids_by_appid
    \/ create_steam_db
    \/ run_output_database

SpecBuilder == InitBuilder /\ [][NextBuilder]_vars

\* run() has ended, by a return or by an exception
RunEnded == builder.at \in {"finished", "raised"}

\* C32: the database file is written only after the remote fetch of the build has
\* completed; when the key is invalid, the enumeration returns no ids, there are no
\* local mods to seed from, or the fetch fails part-way, run() ends with the file as
\* it was.
C32_WriteOnlyAfterFetch ==
    /\ [][(\/ db_to_update' # db_to_update
           \/ merge_results' # merge_results
           \/ builder'.exists # builder.exists) => builder.fetch = "completed"]_vars
    /\ []((/\ RunEnded
           /\ \/ builder.apikey # 32
              \/ builder.mode = "no_local" /\ Len(workshop.ids) = 0
              \/ builder.mode = "all_mods" /\ builder.mods = {}
              \/ builder.fetch = "failed")
          => merge_results = <<>>)

\* a build with `update` set and the file present has failed part-way through the
\* fetch and left the file alone
C32_Witness ==
    /\ builder.at = "raised"
    /\ builder.apikey = 32
    /\ builder.update /\ builder.exists
    /\ builder.publishedfileids # <<>>
    /\ merge_results = <<>>

====
